---- MODULE Spec2Model ----
(***************************************************************************)
(* FreshTrack backend (Emeron16/Food-Tracker): the grocery record store    *)
(* and the /groceries/sync handler, and the cache-aside lookups of the     *)
(* barcode and recipe services, modelled statement by statement.           *)
(*                                                                         *)
(* The record store is the PostgreSQL table grocery_items (config.py:15),  *)
(* whose primary key is the column id alone (db/models/grocery.py:19-23).  *)
(* A request runs in one SQLAlchemy session: ORM writes stay in the        *)
(* session's unit of work and reach the table when the handler commits;    *)
(* an exception before or during the commit leaves the table untouched.    *)
(* Row locks are not modelled: a write that would wait for another         *)
(* transaction is decided against the committed table when its own         *)
(* transaction commits, which is the outcome the wait ends with.           *)
(***************************************************************************)
EXTENDS Integers, Sequences, FiniteSets, TLC

VARIABLES
    store,    \* committed rows of grocery_items
    now,      \* server clock
    uuids,    \* number of uuid4 values handed out so far
    pc,       \* per request slot: position in the handler
    req,      \* per request slot: the request being served
    sess,     \* per request slot: the session's unit of work
    resp,     \* per request slot: the response (or fault) of the last request
    pre,      \* per request slot: the table as it was when the request started
    redis,    \* the cache store: key -> JSON text and time of expiry
    clients,  \* the services whose initialize() has run
    lk,       \* per request slot: the lookup call in progress
    prev,     \* the lookup call that returned last
    clock,    \* seconds on the cache store's clock
    lookups   \* number of lookup calls started

gvars == <<store, now, uuids, pc, req, sess, resp, pre>>
lkvars == <<redis, clients, lk, prev, clock, lookups>>
vars == <<store, now, uuids, pc, req, sess, resp, pre, redis, clients, lk, prev, clock, lookups>>

----------------------------------------------------------------------------
(* Bounds of the model *)

MaxTime == 3          \* requests served, one clock reading each
MaxUuid == 2          \* uuid4 values available to the handlers
MaxItems == 2         \* longest items list of a sync request
NumClientIds == 1     \* distinct client-chosen ids
MaxLookups == 2       \* lookup calls started
MaxRaceLookups == 3   \* lookup calls started, two of them at a time
MaxTags == 2          \* longest list of category tags

(* Program constants *)

MaxNameLen == 255
MaxUnitLen == 20
MaxBarcodeLen == 50

----------------------------------------------------------------------------
(* Values *)

None == <<>>
Some(v) == <<v>>

(* Request slots, and the users a request may run as: the handlers take    *)
(* current_user from get_current_user_mock, whose select(User).limit(1)    *)
(* has no ordering and yields whichever registered user the database       *)
(* returns.                                                                *)
Procs == {"p1", "p2"}
Users == {"A", "B"}

ClientIds == {<<"client", i>> : i \in 1..NumClientIds}
Uuid(k) == <<"uuid", k>>

FoodCategory ==
    {"Dairy", "Meat", "Seafood", "Produce", "Bakery", "Frozen", "Pantry",
     "Beverages", "Condiments", "Snacks", "Other"}

StorageLocation == {"Refrigerator", "Freezer", "Pantry", "Counter"}

(* The fields a GroceryItemCreate carries besides id, in the order of the  *)
(* assignments of sync_groceries.                                          *)
SubmittedFields ==
    {"name", "category", "storage_location", "quantity", "unit",
     "purchase_date", "expiration_date", "predicted_expiration_date",
     "confidence_score", "barcode", "notes"}

----------------------------------------------------------------------------
(* Request bodies as they arrive: every key is absent (None) or present.   *)

RawMilk ==
    [name |-> Some("Milk"), category |-> Some("Dairy"),
     storage_location |-> Some("Refrigerator"), quantity |-> Some(2),
     unit |-> Some("gallon"), purchase_date |-> Some(1),
     expiration_date |-> Some(2), predicted_expiration_date |-> Some(2),
     confidence_score |-> Some(1), barcode |-> Some("12345678"),
     notes |-> Some("organic")]

RawBread ==
    [name |-> Some("Bread"), category |-> Some("Bakery"),
     storage_location |-> Some("Pantry"), quantity |-> None,
     unit |-> None, purchase_date |-> Some(0),
     expiration_date |-> None, predicted_expiration_date |-> None,
     confidence_score |-> None, barcode |-> None, notes |-> None]

RawBadCategory == [RawMilk EXCEPT !.category = Some("Candy")]

ValidRaw == {RawMilk, RawBread}
InvalidRaw == {RawBadCategory}

(* GroceryItemBase: the declarative validation of one item.                *)
Validate(raw) ==
    /\ raw.name # None
    /\ Len(raw.name[1]) >= 1
    /\ Len(raw.name[1]) <= MaxNameLen
    /\ raw.category # None
    /\ raw.category[1] \in FoodCategory
    /\ raw.storage_location # None
    /\ raw.storage_location[1] \in StorageLocation
    /\ (raw.quantity # None => raw.quantity[1] > 0)
    /\ (raw.unit # None => Len(raw.unit[1]) <= MaxUnitLen)
    /\ raw.purchase_date # None
    /\ (raw.confidence_score # None =>
            /\ raw.confidence_score[1] >= 0
            /\ raw.confidence_score[1] <= 1)
    /\ (raw.barcode # None => Len(raw.barcode[1]) <= MaxBarcodeLen)

(* GroceryItemCreate: the parsed item, with the schema's defaults filled   *)
(* in for the keys the body left out.  Nullable fields keep None/Some.     *)
ParseItem(id, raw) ==
    [id |-> id,
     name |-> raw.name[1],
     category |-> raw.category[1],
     storage_location |-> raw.storage_location[1],
     quantity |-> IF raw.quantity = None THEN 1 ELSE raw.quantity[1],
     unit |-> IF raw.unit = None THEN "piece" ELSE raw.unit[1],
     purchase_date |-> raw.purchase_date[1],
     expiration_date |-> raw.expiration_date,
     predicted_expiration_date |-> raw.predicted_expiration_date,
     confidence_score |-> raw.confidence_score,
     barcode |-> raw.barcode,
     notes |-> raw.notes]

----------------------------------------------------------------------------
(* Rows of grocery_items and the session's view of them *)

(* GroceryItem(...) as the INSERT stores it: the submitted columns, the    *)
(* column defaults is_consumed = False and consumed_date = NULL, and the   *)
(* server defaults created_at = updated_at = now(), which PostgreSQL       *)
(* evaluates to the start time of the transaction.                         *)
NewRow(id, user, item, t) ==
    [id |-> id,
     user_id |-> user,
     name |-> item.name,
     category |-> item.category,
     storage_location |-> item.storage_location,
     quantity |-> item.quantity,
     unit |-> item.unit,
     purchase_date |-> item.purchase_date,
     expiration_date |-> item.expiration_date,
     predicted_expiration_date |-> item.predicted_expiration_date,
     confidence_score |-> item.confidence_score,
     barcode |-> item.barcode,
     notes |-> item.notes,
     is_consumed |-> FALSE,
     consumed_date |-> None,
     created_at |-> t,
     updated_at |-> t]

(* A merge that keeps the stored value of an optional field the item       *)
(* leaves out.                                                             *)
OverwriteMerged(row, item) ==
    LET Keep(old, new) == IF new = None THEN old ELSE new
    IN  [row EXCEPT
            !.name = item.name,
            !.category = item.category,
            !.storage_location = item.storage_location,
            !.quantity = item.quantity,
            !.unit = item.unit,
            !.purchase_date = item.purchase_date,
            !.expiration_date = Keep(row.expiration_date, item.expiration_date),
            !.predicted_expiration_date =
                Keep(row.predicted_expiration_date, item.predicted_expiration_date),
            !.confidence_score = Keep(row.confidence_score, item.confidence_score),
            !.barcode = Keep(row.barcode, item.barcode),
            !.notes = Keep(row.notes, item.notes)]

(* An update branch that assigns nothing: the first writer's values stay.  *)
OverwriteNothing(row, item) == row

(* An update branch that also resets the consumption columns.              *)
OverwriteResetsConsumed(row, item) ==
    [row EXCEPT
        !.name = item.name,
        !.category = item.category,
        !.storage_location = item.storage_location,
        !.quantity = item.quantity,
        !.unit = item.unit,
        !.purchase_date = item.purchase_date,
        !.expiration_date = item.expiration_date,
        !.predicted_expiration_date = item.predicted_expiration_date,
        !.confidence_score = item.confidence_score,
        !.barcode = item.barcode,
        !.notes = item.notes,
        !.is_consumed = FALSE,
        !.consumed_date = None]

(* The eleven assignments of the update branch of sync_groceries.          *)
Overwrite(row, item) ==
    [row EXCEPT
        !.name = item.name,
        !.category = item.category,
        !.storage_location = item.storage_location,
        !.quantity = item.quantity,
        !.unit = item.unit,
        !.purchase_date = item.purchase_date,
        !.expiration_date = item.expiration_date,
        !.predicted_expiration_date = item.predicted_expiration_date,
        !.confidence_score = item.confidence_score,
        !.barcode = item.barcode,
        !.notes = item.notes]

IdsOf(rows) == {r.id : r \in rows}

(* A session: the rows its bulk DELETE removed, the objects it added, the   *)
(* objects it loaded and changed, the start time of its transaction, and,  *)
(* per processed item, the item_id used and whether existing_item was set. *)
EmptySession ==
    [del |-> {}, new |-> {}, upd |-> {}, ids |-> <<>>, hit |-> <<>>, t |-> 0]

NoRequest ==
    [op |-> "none", user |-> "A", items |-> <<>>, deleted_ids |-> {}]

NoResponse ==
    [status |-> "none", items |-> {}, deleted_ids |-> <<>>, sync_timestamp |-> 0]

(* The rows a SELECT of session p returns: the committed rows it has not   *)
(* deleted, with the attribute values of the objects it already holds,     *)
(* and the rows it has added itself (flushed before the query runs).       *)
Flushed(p) == sess[p].new

Visible(p) ==
    LET loaded == {u.orig.id : u \in sess[p].upd}
        kept == {r \in store : r.id \notin IdsOf(sess[p].del) /\ r.id \notin loaded}
        held == {u.cur : u \in {v \in sess[p].upd : v.orig.id \in IdsOf(store)}}
    IN  kept \cup held \cup Flushed(p)

(* select(GroceryItem).where(id == item_id, user_id == current_user.id)    *)
SelectOwned(p, id, user) ==
    {r \in Visible(p) : r.id = id /\ r.user_id = user}

(* select(GroceryItem).where(user_id == current_user.id)                   *)
SelectAllOf(user) == {r \in store : r.user_id = user}

----------------------------------------------------------------------------
(* Text.  A Python str is the sequence of its characters, so that strip,   *)
(* isdigit, lower, `in`, join and sorted are computed character by         *)
(* character, as the interpreter computes them.                            *)

(* The characters in use, in code point order.  "^2" stands for the one    *)
(* character SUPERSCRIPT TWO.                                              *)
CodePoints ==
    <<" ", ",", "-",
      "0", "1", "2", "3", "4", "5", "6", "7", "8", "9",
      ":",
      "A", "B", "C", "D", "E", "F", "G", "H", "I", "J", "K", "L", "M",
      "N", "O", "P", "Q", "R", "S", "T", "U", "V", "W", "X", "Y", "Z",
      "a", "b", "c", "d", "e", "f", "g", "h", "i", "j", "k", "l", "m",
      "n", "o", "p", "q", "r", "s", "t", "u", "v", "w", "x", "y", "z",
      "^2">>

ord(c) == CHOOSE i \in 1..Len(CodePoints) : CodePoints[i] = c

Whitespace == {" "}

AsciiDigits == {"0", "1", "2", "3", "4", "5", "6", "7", "8", "9"}

(* str.isdigit() holds for every character with the Unicode property       *)
(* Numeric_Type Digit or Decimal, SUPERSCRIPT TWO among them.              *)
DigitChars == AsciiDigits \cup {"^2"}

UpperCase == {CodePoints[i] : i \in ord("A")..ord("Z")}

(* s.strip() *)
RECURSIVE lstrip(_)
lstrip(s) ==
    IF s # <<>> /\ Head(s) \in Whitespace THEN lstrip(Tail(s)) ELSE s

RECURSIVE rstrip(_)
rstrip(s) ==
    IF s # <<>> /\ s[Len(s)] \in Whitespace
    THEN rstrip(SubSeq(s, 1, Len(s) - 1))
    ELSE s

strip(s) == rstrip(lstrip(s))

(* s.isdigit(): at least one character, and all of them digits. *)
isdigit(s) == s # <<>> /\ \A i \in 1..Len(s) : s[i] \in DigitChars

(* s.lower() *)
lower(s) ==
    [i \in 1..Len(s) |->
        IF s[i] \in UpperCase
        THEN CodePoints[ord(s[i]) + (ord("a") - ord("A"))]
        ELSE s[i]]

(* sub in s *)
Contains(sub, s) ==
    \E i \in 0..(Len(s) - Len(sub)) : SubSeq(s, i + 1, i + Len(sub)) = sub

(* sep.join(parts) *)
RECURSIVE join(_, _)
join(sep, parts) ==
    IF parts = <<>> THEN <<>>
    ELSE IF Len(parts) = 1 THEN parts[1]
    ELSE parts[1] \o sep \o join(sep, Tail(parts))

(* a < b for str: the first differing character decides, a proper prefix   *)
(* is smaller.                                                             *)
RECURSIVE StrLess(_, _)
StrLess(a, b) ==
    IF b = <<>> THEN FALSE
    ELSE IF a = <<>> THEN TRUE
    ELSE IF Head(a) = Head(b) THEN StrLess(Tail(a), Tail(b))
    ELSE ord(Head(a)) < ord(Head(b))

(* sorted(parts): a stable insertion sort. *)
RECURSIVE Insert(_, _)
Insert(x, parts) ==
    IF parts = <<>> THEN <<x>>
    ELSE IF StrLess(x, Head(parts)) THEN <<x>> \o parts
    ELSE <<Head(parts)>> \o Insert(x, Tail(parts))

RECURSIVE sorted(_)
sorted(parts) ==
    IF parts = <<>> THEN <<>>
    ELSE Insert(parts[Len(parts)], sorted(SubSeq(parts, 1, Len(parts) - 1)))

----------------------------------------------------------------------------
(* JSON values as the services handle them: null, a string, a list, a     *)
(* dict.  Python's None is None where a whole document is meant and Null   *)
(* where it is the value of a key.                                         *)

Null == <<"null">>
Str(s) == <<"str", s>>
List(l) == <<"list", l>>
Dict(d) == <<"dict", d>>

IsStr(v) == Len(v) = 2 /\ v[1] = "str"
IsList(v) == Len(v) = 2 /\ v[1] = "list"

(* Python truth: None, null, "" and [] are false. *)
Truthy(v) ==
    IF v = <<>> THEN FALSE
    ELSE IF v[1] = "null" THEN FALSE
    ELSE IF v[1] \in {"str", "list"} THEN v[2] # <<>>
    ELSE TRUE

(* A lookup that yields null for an absent key where the default is the   *)
(* empty text.                                                             *)
GetNullDefault(field, default) ==
    IF field # None THEN field[1]
    ELSE IF default[1] = "str" THEN Null
    ELSE default

(* dict.get(key, default) on a dict whose key is absent (None) or present  *)
(* (Some(value)): a present null is returned as it is.                     *)
Get(field, default) == IF field = None THEN default ELSE field[1]

(* What a call hands back: a value, or the exception it raised.            *)
Returns(v) == [raised |-> "", value |-> v]
Raises(e) == [raised |-> e, value |-> None]

----------------------------------------------------------------------------
(* BarcodeService._map_category *)

mapping ==
    <<
      <<<<"d", "a", "i", "r", "y">>, "Dairy">>,
      <<<<"m", "i", "l", "k">>, "Dairy">>,
      <<<<"c", "h", "e", "e", "s", "e">>, "Dairy">>,
      <<<<"y", "o", "g", "u", "r", "t">>, "Dairy">>,
      <<<<"b", "u", "t", "t", "e", "r">>, "Dairy">>,
      <<<<"m", "e", "a", "t">>, "Meat">>,
      <<<<"b", "e", "e", "f">>, "Meat">>,
      <<<<"p", "o", "r", "k">>, "Meat">>,
      <<<<"c", "h", "i", "c", "k", "e", "n">>, "Meat">>,
      <<<<"t", "u", "r", "k", "e", "y">>, "Meat">>,
      <<<<"s", "a", "u", "s", "a", "g", "e">>, "Meat">>,
      <<<<"f", "i", "s", "h">>, "Seafood">>,
      <<<<"s", "e", "a", "f", "o", "o", "d">>, "Seafood">>,
      <<<<"s", "h", "r", "i", "m", "p">>, "Seafood">>,
      <<<<"t", "u", "n", "a">>, "Seafood">>,
      <<<<"s", "a", "l", "m", "o", "n">>, "Seafood">>,
      <<<<"f", "r", "u", "i", "t">>, "Produce">>,
      <<<<"v", "e", "g", "e", "t", "a", "b", "l", "e">>, "Produce">>,
      <<<<"s", "a", "l", "a", "d">>, "Produce">>,
      <<<<"b", "r", "e", "a", "d">>, "Bakery">>,
      <<<<"p", "a", "s", "t", "r", "y">>, "Bakery">>,
      <<<<"c", "a", "k", "e">>, "Bakery">>,
      <<<<"f", "r", "o", "z", "e", "n">>, "Frozen">>,
      <<<<"i", "c", "e", "-", "c", "r", "e", "a", "m">>, "Frozen">>,
      <<<<"b", "e", "v", "e", "r", "a", "g", "e">>, "Beverages">>,
      <<<<"d", "r", "i", "n", "k">>, "Beverages">>,
      <<<<"j", "u", "i", "c", "e">>, "Beverages">>,
      <<<<"w", "a", "t", "e", "r">>, "Beverages">>,
      <<<<"s", "o", "d", "a">>, "Beverages">>,
      <<<<"c", "o", "f", "f", "e", "e">>, "Beverages">>,
      <<<<"t", "e", "a">>, "Beverages">>,
      <<<<"s", "a", "u", "c", "e">>, "Condiments">>,
      <<<<"c", "o", "n", "d", "i", "m", "e", "n", "t">>, "Condiments">>,
      <<<<"k", "e", "t", "c", "h", "u", "p">>, "Condiments">>,
      <<<<"m", "u", "s", "t", "a", "r", "d">>, "Condiments">>,
      <<<<"m", "a", "y", "o", "n", "n", "a", "i", "s", "e">>, "Condiments">>,
      <<<<"s", "n", "a", "c", "k">>, "Snacks">>,
      <<<<"c", "h", "i", "p">>, "Snacks">>,
      <<<<"c", "o", "o", "k", "i", "e">>, "Snacks">>,
      <<<<"c", "r", "a", "c", "k", "e", "r">>, "Snacks">>,
      <<<<"c", "a", "n", "d", "y">>, "Snacks">>,
      <<<<"c", "h", "o", "c", "o", "l", "a", "t", "e">>, "Snacks">>,
      <<<<"c", "e", "r", "e", "a", "l">>, "Pantry">>,
      <<<<"p", "a", "s", "t", "a">>, "Pantry">>,
      <<<<"r", "i", "c", "e">>, "Pantry">>,
      <<<<"c", "a", "n", "n", "e", "d">>, "Pantry">>,
      <<<<"f", "l", "o", "u", "r">>, "Pantry">>,
      <<<<"s", "u", "g", "a", "r">>, "Pantry">>,
      <<<<"o", "i", "l">>, "Pantry">>>>

(* The keyword loop for one tag: the index of the first keyword of the     *)
(* table the tag contains, 0 when there is none.                           *)
RECURSIVE FirstKeyword(_, _)
FirstKeyword(tag_lower, k) ==
    IF k > Len(mapping) THEN 0
    ELSE IF Contains(mapping[k][1], tag_lower) THEN k
    ELSE FirstKeyword(tag_lower, k + 1)

(* A scan with the loops exchanged: the first keyword of the table that    *)
(* any tag contains decides.                                               *)
map_category_keyword_first(categories_tags) ==
    LET found == {k \in 1..Len(mapping) :
                    \E i \in 1..Len(categories_tags) :
                        Contains(mapping[k][1], lower(categories_tags[i]))}
    IN  IF found = {} THEN "Other"
        ELSE mapping[CHOOSE k \in found : \A j \in found : k <= j][2]

RECURSIVE map_category(_)
map_category(categories_tags) ==
    IF categories_tags = <<>> THEN "Other"
    ELSE LET k == FirstKeyword(lower(Head(categories_tags)), 1)
         IN  IF k # 0 THEN mapping[k][2]
             ELSE map_category(Tail(categories_tags))

(* Category tags as Open Food Facts sends them. *)
Tags ==
    {<<"e", "n", ":", "y", "o", "g", "u", "r", "t", "s">>, <<"e", "n", ":", "d", "a", "i", "r", "y">>, <<"e", "n", ":", "u", "n", "k", "n", "o", "w", "n", "-", "t", "h", "i", "n", "g">>, <<"e", "n", ":", "b", "r", "e", "a", "d", "s">>,
     <<"e", "n", ":", "m", "i", "l", "k", "-", "c", "h", "o", "c", "o", "l", "a", "t", "e", "s">>, <<"e", "n", ":", "I", "c", "e", "d", "-", "T", "e", "a", "s">>, <<"e", "n", ":", "f", "r", "o", "z", "e", "n", "-", "f", "i", "s", "h">>, <<"f", "r", ":", "p", "a", "i", "n", "s">>}

(* BarcodeService._parse_product.  A product is the upstream dict: each    *)
(* key is absent (None) or present with a JSON value.                      *)
parse_product(product, barcode) ==
    LET raw_name == Get(product.product_name, Str(<<>>))
    IN  IF ~IsStr(raw_name) THEN Raises("AttributeError")
        ELSE LET name == strip(raw_name[2])
                 categories_tags == Get(product.categories_tags, List(<<>>))
             IN  IF name = <<>> THEN Returns(None)
                 ELSE IF ~IsList(categories_tags) THEN Raises("TypeError")
                 ELSE Returns(Dict(
                        [barcode |-> Str(barcode),
                         name |-> Str(name),
                         brand |-> Get(product.brands, Str(<<>>)),
                         categories |-> Get(product.categories, Str(<<>>)),
                         suggested_category |-> map_category(categories_tags[2]),
                         quantity_string |-> Get(product.quantity, Str(<<>>)),
                         image_url |-> Get(product.image_front_url, Str(<<>>)),
                         ingredients_text |-> Get(product.ingredients_text, Str(<<>>)),
                         nutriscore_grade |-> Get(product.nutriscore_grade, Str(<<>>))]))

(* The answers of Open Food Facts to GET /api/v2/product/{barcode}: the    *)
(* transport fails (httpx.HTTPError), or a response arrives with a status  *)
(* code and a body that is JSON text or not; a JSON body is an object with *)
(* the keys status and product, each absent or present.                    *)
NoProductDict ==
    [product_name |-> None, brands |-> None, categories |-> None,
     categories_tags |-> None, quantity |-> None, image_front_url |-> None,
     ingredients_text |-> None, nutriscore_grade |-> None]

Yogurt ==
    [product_name |-> Some(Str(<<" ", "Y", "o", "g", "u", "r", "t", " ">>)),
     brands |-> Some(Str(<<"A", "c", "m", "e">>)),
     categories |-> Some(Str(<<"D", "a", "i", "r", "i", "e", "s">>)),
     categories_tags |-> Some(List(<<<<"e", "n", ":", "y", "o", "g", "u", "r", "t", "s">>, <<"e", "n", ":", "d", "a", "i", "r", "y">>>>)),
     quantity |-> Some(Str(<<"5", "0", "0", " ", "g">>)),
     image_front_url |-> Some(Str(<<"i", "m", "g">>)),
     ingredients_text |-> Some(Str(<<"m", "i", "l", "k">>)),
     nutriscore_grade |-> Some(Str(<<"b">>))]

Thing == [NoProductDict EXCEPT !.product_name = Some(Str(<<"T", "h", "i", "n", "g">>))]

NullBrand == [Thing EXCEPT !.brands = Some(Null)]

Blank == [Yogurt EXCEPT !.product_name = Some(Str(<<" ", " ">>))]

Empty == [Yogurt EXCEPT !.product_name = Some(Str(<<>>))]

Nameless == [Yogurt EXCEPT !.product_name = None]

NullName == [Yogurt EXCEPT !.product_name = Some(Null)]

NullTags == [Thing EXCEPT !.categories_tags = Some(Null)]

Response(code, json, flag, product) ==
    [error |-> FALSE, status_code |-> code, json |-> json,
     status |-> flag, product |-> product]

TransportError == [Response(0, FALSE, None, None) EXCEPT !.error = TRUE]

ProductResponses ==
    {TransportError,
     Response(404, TRUE, Some(0), None),
     Response(500, FALSE, None, None),
     Response(200, FALSE, None, None),
     Response(200, TRUE, None, None),
     Response(200, TRUE, Some(0), None),
     Response(200, TRUE, Some(1), None),
     Response(200, TRUE, Some(1), Some(Null))}
        \cup {Response(200, TRUE, Some(1), Some(Dict(d))) :
                d \in {Yogurt, Thing, NullBrand, Blank, Empty, Nameless,
                       NullName, NullTags}}

(* BarcodeService._query_open_food_facts, given the answer to its GET.     *)
query_open_food_facts(response, barcode) ==
    IF response.error THEN Returns(None)
    ELSE IF response.status_code # 200 THEN Returns(None)
    ELSE IF ~response.json THEN Raises("JSONDecodeError")
    ELSE IF response.status # Some(1) THEN Returns(None)
    ELSE LET product == Get(response.product, Dict(NoProductDict))
         IN  IF product = Null THEN Raises("AttributeError")
             ELSE parse_product(product[2], barcode)

----------------------------------------------------------------------------
(* The cache store and the lookup calls *)

BarcodeFoundTtl == 604800
BarcodeNotFoundTtl == 3600
RecipeSearchTtl == 3600
ByIngredientsTtl == 3600
RecipeDetailTtl == 86400

(* A serializer that writes the empty text. *)
dumps_empty(v) == <<>>

(* json.dumps and json.loads on what the services cache: None, a dict or   *)
(* a list.  The text of None is the four characters null.                  *)
dumps(v) ==
    IF v = None THEN <<"n", "u", "l", "l">>
    ELSE IF v[1] = "list" THEN <<"[", v[2], "]">>
    ELSE <<"{", v[2], "}">>

loads(text) ==
    IF Len(text) = 4 /\ text[1] = "n" THEN Returns(None)
    ELSE IF Len(text) = 3 /\ text[1] = "["
    THEN Returns(List(text[2]))
    ELSE IF Len(text) = 3 /\ text[1] = "{"
    THEN Returns(Dict(text[2]))
    ELSE Raises("JSONDecodeError")

(* redis GET and SETEX: an entry is gone once its time to live is over.    *)
Present(key) == key \in DOMAIN redis /\ clock < redis[key].exp

(* A SETEX that doubles the time to live. *)
setex_doubled(key, ttl, text) ==
    [k \in DOMAIN redis \cup {key} |->
        IF k = key THEN [text |-> text, exp |-> clock + 2 * ttl] ELSE redis[k]]

setex(key, ttl, text) ==
    [k \in DOMAIN redis \cup {key} |->
        IF k = key THEN [text |-> text, exp |-> clock + ttl] ELSE redis[k]]

(* A lookup call: the operation and its argument, the position in the      *)
(* service method, the cache key, how the cache read and the cache write   *)
(* went, the number of upstream requests and the answer to the last one,   *)
(* what the method returned, the expiry of the entry it read or wrote, and *)
(* the endpoint's status.  The calls are numbered in the order they start; *)
(* a call also carries the number of the call that had returned last when  *)
(* it started.                                                             *)
NoLookup ==
    [op |-> "none", arg |-> <<>>, pc |-> "idle", key |-> <<>>,
     read |-> "none", calls |-> 0, up |-> None, wrote |-> "none",
     out |-> Returns(None), exp |-> 0, status |-> "none",
     seq |-> 0, since |-> 0]

(* What is kept of the call that returned last: its argument and key,      *)
(* what it returned and the expiry of the cache entry it read or wrote.    *)
(* A call that was rejected, or whose cache read failed and which wrote    *)
(* nothing, leaves nothing to be kept.                                     *)
NoPrevious ==
    [op |-> "none", arg |-> <<>>, key |-> <<>>, out |-> Returns(None),
     exp |-> 0, status |-> "none", seq |-> 0]

Remembered(call) ==
    IF call.exp = 0 /\ call.read # "miss" THEN NoPrevious
    ELSE [op |-> call.op, arg |-> call.arg, key |-> call.key,
          out |-> call.out, exp |-> call.exp, status |-> call.status,
          seq |-> call.seq]

Services == {"barcode", "spoonacular"}

----------------------------------------------------------------------------
(* SpoonacularService: cache keys and normalizers *)

Number(n) == <<"int", n>>
Boolean(b) == <<"bool", b>>

(* str(n) for n >= 0 *)
RECURSIVE str(_)
str(n) ==
    IF n < 10 THEN <<CodePoints[ord("0") + n]>>
    ELSE str(n \div 10) \o <<CodePoints[ord("0") + (n % 10)]>>

(* f"{x or ''}" for an Optional[str] and for an Optional[int] *)
StrOrEmpty(x) == IF x = None \/ x[1] = <<>> THEN <<>> ELSE x[1]
IntOrEmpty(x) == IF x = None \/ x[1] = 0 THEN <<>> ELSE str(x[1])

(* search_recipes: cache_parts and cache_key *)
SearchKey(a) ==
    LET cache_parts ==
            <<<<"q", ":">> \o StrOrEmpty(a.query),
              <<"i", ":">> \o (IF a.ingredients # None /\ a.ingredients[1] # <<>>
                         THEN join(<<",">>, sorted(a.ingredients[1]))
                         ELSE <<>>),
              <<"d", ":">> \o StrOrEmpty(a.diet),
              <<"t", ":">> \o IntOrEmpty(a.max_ready_time),
              <<"n", ":">> \o str(a.number),
              <<"o", ":">> \o str(a.offset)>>
    IN  <<"r", "e", "c", "i", "p", "e", "s", ":", "s", "e", "a", "r", "c", "h", ":">> \o join(<<":">>, cache_parts)

(* A key built from the ingredients in the order given. *)
ByIngredientsKeyUnsorted(a) ==
    <<"r", "e", "c", "i", "p", "e", "s", ":", "b", "y", "i", "n", "g", "r", "e", "d", "i", "e", "n", "t", "s", ":">> \o join(<<",">>, a.ingredients)
        \o <<":">> \o str(a.number) \o <<":">> \o str(a.ranking)

(* search_by_ingredients: cache_key *)
ByIngredientsKey(a) ==
    <<"r", "e", "c", "i", "p", "e", "s", ":", "b", "y", "i", "n", "g", "r", "e", "d", "i", "e", "n", "t", "s", ":">> \o join(<<",">>, sorted(a.ingredients))
        \o <<":">> \o str(a.number) \o <<":">> \o str(a.ranking)

(* get_recipe_details: cache_key *)
DetailKey(recipe_id) == <<"r", "e", "c", "i", "p", "e", "s", ":", "d", "e", "t", "a", "i", "l", ":">> \o str(recipe_id)

(* A recipe as Spoonacular sends it: each key absent or present. *)
NoRecipeDict ==
    [id |-> None, title |-> None, image |-> None, readyInMinutes |-> None,
     servings |-> None, sourceUrl |-> None, sourceName |-> None,
     summary |-> None, diets |-> None, dishTypes |-> None, cuisines |-> None,
     vegetarian |-> None, vegan |-> None, glutenFree |-> None,
     dairyFree |-> None, healthScore |-> None, instructions |-> None,
     extendedIngredients |-> None, analyzedInstructions |-> None,
     usedIngredientCount |-> None, missedIngredientCount |-> None,
     usedIngredients |-> None, missedIngredients |-> None]

Omelette ==
    [NoRecipeDict EXCEPT
        !.id = Some(Number(7)), !.title = Some(Str(<<"O", "m", "e", "l", "e", "t", "t", "e">>)),
        !.readyInMinutes = Some(Number(10)), !.vegetarian = Some(Boolean(TRUE)),
        !.diets = Some(List(<<<<"v", "e", "g", "e", "t", "a", "r", "i", "a", "n">>>>)),
        !.usedIngredientCount = Some(Number(1)),
        !.usedIngredients = Some(List(<<[name |-> Some(Str(<<"e", "g", "g">>)), image |-> None]>>)),
        !.extendedIngredients =
            Some(List(<<[id |-> Some(Number(1)), name |-> Some(Str(<<"e", "g", "g">>)),
                         original |-> Some(Str(<<"2", " ", "e", "g", "g", "s">>)), amount |-> Some(Number(2)),
                         unit |-> None, image |-> Some(Str(<<"e", "g", "g", ".", "p", "n", "g">>))]>>)),
        !.analyzedInstructions =
            Some(List(<<[steps |-> Some(List(<<
                [number |-> Some(Number(1)), step |-> Some(Str(<<"B", "e", "a", "t">>)),
                 ingredients |-> Some(List(<<[name |-> Some(Str(<<"e", "g", "g">>))]>>)),
                 equipment |-> None]>>))]>>))]

Untitled == [NoRecipeDict EXCEPT !.id = Some(Number(8))]

Map(f(_), l) == [i \in 1..Len(l) |-> f(l[i])]

(* _parse_recipe_summary *)
parse_recipe_summary(data) ==
    [id |-> Get(data.id, Null),
     title |-> Get(data.title, Str(<<>>)),
     image |-> Get(data.image, Str(<<>>)),
     ready_in_minutes |-> Get(data.readyInMinutes, Null),
     servings |-> Get(data.servings, Null),
     source_url |-> Get(data.sourceUrl, Str(<<>>)),
     diets |-> Get(data.diets, List(<<>>)),
     dish_types |-> Get(data.dishTypes, List(<<>>)),
     vegetarian |-> Get(data.vegetarian, Boolean(FALSE)),
     vegan |-> Get(data.vegan, Boolean(FALSE)),
     gluten_free |-> Get(data.glutenFree, Boolean(FALSE)),
     dairy_free |-> Get(data.dairyFree, Boolean(FALSE)),
     health_score |-> Get(data.healthScore, Null)]

(* _parse_ingredient_search_result *)
NameAndImage(i) ==
    [name |-> Get(i.name, Str(<<>>)), image |-> Get(i.image, Str(<<>>))]

parse_ingredient_search_result(data) ==
    [id |-> Get(data.id, Null),
     title |-> Get(data.title, Str(<<>>)),
     image |-> Get(data.image, Str(<<>>)),
     used_ingredient_count |-> Get(data.usedIngredientCount, Number(0)),
     missed_ingredient_count |-> Get(data.missedIngredientCount, Number(0)),
     used_ingredients |->
        Map(NameAndImage, Get(data.usedIngredients, List(<<>>))[2]),
     missed_ingredients |->
        Map(NameAndImage, Get(data.missedIngredients, List(<<>>))[2])]

(* _parse_recipe_detail *)
DetailIngredient(ing) ==
    [id |-> Get(ing.id, Null),
     name |-> Get(ing.name, Str(<<>>)),
     original |-> Get(ing.original, Str(<<>>)),
     amount |-> Get(ing.amount, Null),
     unit |-> Get(ing.unit, Str(<<>>)),
     image |-> IF Truthy(Get(ing.image, Null))
               THEN Str(<<"h", "t", "t", "p", "s", ":", "/", "/", "s", "p", "o", "o", "n", "a", "c", "u", "l", "a", "r", ".", "c", "o", "m", "/", "c", "d", "n", "/", "i", "n", "g", "r", "e", "d", "i", "e", "n", "t", "s", "_", "1", "0", "0", "x", "1", "0", "0", "/">>
                        \o Get(ing.image, Str(<<>>))[2])
               ELSE Null]

NameOf(i) == Get(i.name, Str(<<>>))

DetailStep(step) ==
    [number |-> Get(step.number, Null),
     step |-> Get(step.step, Str(<<>>)),
     ingredients |-> Map(NameOf, Get(step.ingredients, List(<<>>))[2]),
     equipment |-> Map(NameOf, Get(step.equipment, List(<<>>))[2])]

parse_recipe_detail(data) ==
    LET analyzed == Get(data.analyzedInstructions, List(<<>>))
    IN  [id |-> Get(data.id, Null),
         title |-> Get(data.title, Str(<<>>)),
         image |-> Get(data.image, Str(<<>>)),
         ready_in_minutes |-> Get(data.readyInMinutes, Null),
         servings |-> Get(data.servings, Null),
         source_url |-> Get(data.sourceUrl, Str(<<>>)),
         source_name |-> Get(data.sourceName, Str(<<>>)),
         summary |-> Get(data.summary, Str(<<>>)),
         diets |-> Get(data.diets, List(<<>>)),
         dish_types |-> Get(data.dishTypes, List(<<>>)),
         cuisines |-> Get(data.cuisines, List(<<>>)),
         vegetarian |-> Get(data.vegetarian, Boolean(FALSE)),
         vegan |-> Get(data.vegan, Boolean(FALSE)),
         gluten_free |-> Get(data.glutenFree, Boolean(FALSE)),
         dairy_free |-> Get(data.dairyFree, Boolean(FALSE)),
         health_score |-> Get(data.healthScore, Null),
         ingredients |->
            Map(DetailIngredient, Get(data.extendedIngredients, List(<<>>))[2]),
         instructions |->
            IF Truthy(analyzed)
            THEN Map(DetailStep, Get(analyzed[2][1].steps, List(<<>>))[2])
            ELSE <<>>,
         instructions_text |-> Get(data.instructions, Str(<<>>))]

----------------------------------------------------------------------------
(* Everything but the lookup calls: an empty table, an empty cache, the    *)
(* service objects as their constructors leave them.                       *)
Constructed ==
    /\ store = {}
    /\ now = 0
    /\ uuids = 0
    /\ pc = [p \in Procs |-> "idle"]
    /\ req = [p \in Procs |-> NoRequest]
    /\ sess = [p \in Procs |-> EmptySession]
    /\ resp = [p \in Procs |-> NoResponse]
    /\ pre = [p \in Procs |-> {}]
    /\ redis = <<>>
    /\ clients = {}
    /\ prev = NoPrevious
    /\ clock = 0
    /\ lookups = 0

Init ==
    /\ Constructed
    /\ lk = [p \in Procs |-> NoLookup]

(* Every request arrives at a later reading of the server clock. *)
Arrive(p) ==
    /\ pc[p] = "idle"
    /\ now < MaxTime
    /\ now' = now + 1

(* The response has been sent and the session closed. *)
Return(p) ==
    /\ pc[p] = "done"
    /\ pc' = [pc EXCEPT ![p] = "idle"]
    /\ req' = [req EXCEPT ![p] = NoRequest]
    /\ sess' = [sess EXCEPT ![p] = EmptySession]
    /\ resp' = [resp EXCEPT ![p] = NoResponse]
    /\ pre' = [pre EXCEPT ![p] = {}]
    /\ UNCHANGED <<store, now, uuids>>
    /\ UNCHANGED lkvars

(* The items lists and deleted_ids a client may send: a client names its   *)
(* own ids and, once the server has generated one, the first id it was     *)
(* told of; it cannot name a uuid4 that has not been drawn yet.            *)
DeletableIds == ClientIds \cup (IF uuids >= 1 THEN {Uuid(1)} ELSE {})

ItemInputs(valid, invalid) ==
    [id : {None} \cup {Some(c) : c \in ClientIds}, body : valid]
        \cup [id : {None}, body : invalid]

SeqsUpTo(S, n) == UNION {[1..k -> S] : k \in 0..n}

SyncRequests ==
    [op : {"sync"}, user : Users,
     items : SeqsUpTo(ItemInputs(ValidRaw, InvalidRaw), MaxItems),
     deleted_ids : SUBSET DeletableIds]

ValidRequest(r) == \A i \in 1..Len(r.items) : Validate(r.items[i].body)

(* A body that fails GrocerySyncRequest validation is answered 422 before  *)
(* the handler runs.                                                       *)
SyncReject(p, r) ==
    /\ Arrive(p)
    /\ ~ValidRequest(r)
    /\ pc' = [pc EXCEPT ![p] = "done"]
    /\ req' = [req EXCEPT ![p] = r]
    /\ sess' = [sess EXCEPT ![p] = EmptySession]
    /\ resp' = [resp EXCEPT ![p] = [NoResponse EXCEPT !.status = "422"]]
    /\ pre' = [pre EXCEPT ![p] = store]
    /\ UNCHANGED <<store, uuids>>
    /\ UNCHANGED lkvars

(* A DELETE that forgets the user_id condition.                            *)
DeleteStepAnyOwner(p, r) ==
    IF r.deleted_ids # {}
    THEN {row \in store : row.id \in r.deleted_ids}
    ELSE {}

(* sync_groceries up to the loop: the timestamp and the bulk DELETE.       *)
DeleteStep(p, r) ==
    IF r.deleted_ids # {}
    THEN {row \in store : row.id \in r.deleted_ids /\ row.user_id = r.user}
    ELSE {}

Fresh(r) == Cardinality({i \in 1..Len(r.items) : r.items[i].id = None})

SyncStart(p, r) ==
    /\ Arrive(p)
    /\ ValidRequest(r)
    /\ uuids + Fresh(r) <= MaxUuid
    /\ pc' = [pc EXCEPT ![p] = "loop"]
    /\ req' = [req EXCEPT ![p] = r]
    /\ sess' = [sess EXCEPT ![p] = [EmptySession EXCEPT !.del = DeleteStep(p, r), !.t = now']]
    /\ resp' = [resp EXCEPT ![p] = [NoResponse EXCEPT !.sync_timestamp = now']]
    /\ pre' = [pre EXCEPT ![p] = store]
    /\ UNCHANGED <<store, uuids>>
    /\ UNCHANGED lkvars

(* An item_id that ignores the submitted id, and one that reuses a single  *)
(* generated value for every id-less item.                                 *)
ItemIdAlwaysFresh(given, k) == Uuid(k)

ItemIdFixed(given, k) == IF given = None THEN Uuid(1) ELSE given[1]

(* One iteration of `for item_data in sync_request.items`.                 *)
ItemId(given, k) == IF given = None THEN Uuid(k) ELSE given[1]

Upsert(p, id, item) ==
    LET user == req[p].user
        found == SelectOwned(p, id, user)
        s == sess[p]
    IN  IF found # {}
        THEN LET row == CHOOSE x \in found : TRUE
             IN  IF row \in s.new
                 THEN [s EXCEPT !.new = (s.new \ {row}) \cup {Overwrite(row, item)}]
                 ELSE IF \E u \in s.upd : u.cur = row
                 THEN [s EXCEPT !.upd = {IF u.cur = row
                                          THEN [u EXCEPT !.cur = Overwrite(row, item)]
                                          ELSE u : u \in s.upd}]
                 ELSE [s EXCEPT !.upd = s.upd \cup
                                          {[orig |-> row, cur |-> Overwrite(row, item)]}]
        ELSE [s EXCEPT !.new = s.new \cup {NewRow(id, user, item, s.t)}]

SyncItem(p) ==
    /\ pc[p] = "loop"
    /\ Len(sess[p].ids) < Len(req[p].items)
    /\ LET i == Len(sess[p].ids) + 1
           given == req[p].items[i].id
           item == ParseItem(given, req[p].items[i].body)
           id == ItemId(given, uuids + 1)
           s == Upsert(p, id, item)
       IN  /\ uuids' = IF given = None THEN uuids + 1 ELSE uuids
           /\ sess' = [sess EXCEPT ![p] =
                         [s EXCEPT !.ids = Append(sess[p].ids, id),
                                   !.hit = Append(sess[p].hit,
                                                  SelectOwned(p, id, req[p].user) # {})]]
    /\ UNCHANGED <<store, now, pc, req, resp, pre>>
    /\ UNCHANGED lkvars

(* The UPDATE the unit of work emits for a loaded object: only the columns *)
(* whose value differs from the loaded one are written, and updated_at     *)
(* takes its onupdate value now() when there is at least one.              *)
Changed(u) == {f \in SubmittedFields \cup {"is_consumed", "consumed_date"} :
                    u.cur[f] # u.orig[f]}

ApplyUpdate(r, u, t) ==
    LET ch == Changed(u)
        Pick(f) == IF f \in ch THEN u.cur[f] ELSE r[f]
    IN  [r EXCEPT
            !.name = Pick("name"),
            !.category = Pick("category"),
            !.storage_location = Pick("storage_location"),
            !.quantity = Pick("quantity"),
            !.unit = Pick("unit"),
            !.purchase_date = Pick("purchase_date"),
            !.expiration_date = Pick("expiration_date"),
            !.predicted_expiration_date = Pick("predicted_expiration_date"),
            !.confidence_score = Pick("confidence_score"),
            !.barcode = Pick("barcode"),
            !.notes = Pick("notes"),
            !.is_consumed = Pick("is_consumed"),
            !.consumed_date = Pick("consumed_date"),
            !.updated_at = IF ch # {} THEN t ELSE r.updated_at]

(* The table after the session's DELETE has taken effect.                  *)
AfterDelete(p) == {r \in store : r.id \notin IdsOf(sess[p].del)}

(* The flush fails when an INSERT meets a row with the same primary key    *)
(* (IntegrityError) or an UPDATE matches no row (StaleDataError).          *)
PrimaryKeyViolation(p) ==
    \/ \E n \in sess[p].new : n.id \in IdsOf(AfterDelete(p))
    \/ \E n, m \in sess[p].new : n # m /\ n.id = m.id

StaleUpdate(p) ==
    \E u \in sess[p].upd : Changed(u) # {} /\ u.orig.id \notin IdsOf(AfterDelete(p))

FlushFails(p) == PrimaryKeyViolation(p) \/ StaleUpdate(p)

Committed(p) ==
    LET base == AfterDelete(p)
        Upd(r) == IF \E u \in sess[p].upd : u.orig.id = r.id
                  THEN ApplyUpdate(r, CHOOSE u \in sess[p].upd : u.orig.id = r.id,
                                   sess[p].t)
                  ELSE r
    IN  {Upd(r) : r \in base} \cup sess[p].new

(* A handler that commits statement by statement: the DELETE and the       *)
(* INSERTs that did not fail stay.                                         *)
RolledBackPartial(p) ==
    AfterDelete(p) \cup {n \in sess[p].new : n.id \notin IdsOf(AfterDelete(p))}

(* What a transaction leaves in the table when it ends with an exception.  *)
RolledBack(p) == store

(* `await db.commit()` of sync_groceries.                                  *)
SyncCommit(p) ==
    /\ pc[p] = "loop"
    /\ Len(sess[p].ids) = Len(req[p].items)
    /\ IF FlushFails(p)
       THEN /\ store' = RolledBack(p)
            /\ pc' = [pc EXCEPT ![p] = "done"]
            /\ resp' = [resp EXCEPT ![p] = [NoResponse EXCEPT !.status = "500"]]
       ELSE /\ store' = Committed(p)
            /\ pc' = [pc EXCEPT ![p] = "respond"]
            /\ resp' = resp
    /\ UNCHANGED <<now, uuids, req, sess, pre>>
    /\ UNCHANGED lkvars

(* The filter of get_groceries applied to the sync response.               *)
ResponseItemsUnconsumed(user) == {r \in SelectAllOf(user) : ~r.is_consumed}

(* The closing SELECT and the GrocerySyncResponse.                         *)
ResponseItems(user) == SelectAllOf(user)

server_deleted_ids == <<>>

SyncRespond(p) ==
    /\ pc[p] = "respond"
    /\ pc' = [pc EXCEPT ![p] = "done"]
    /\ resp' = [resp EXCEPT ![p] =
                  [status |-> "200",
                   items |-> ResponseItems(req[p].user),
                   deleted_ids |-> server_deleted_ids,
                   sync_timestamp |-> resp[p].sync_timestamp]]
    /\ UNCHANGED <<store, now, uuids, req, sess, pre>>
    /\ UNCHANGED lkvars

(* mark_consumed: one SELECT, two assignments, commit, refresh.            *)
Consumed(row, t) == [row EXCEPT !.is_consumed = TRUE, !.consumed_date = Some(t)]

MarkConsumed(p, user, id) ==
    /\ Arrive(p)
    /\ LET found == {r \in store : r.id = id /\ r.user_id = user}
           r == CHOOSE x \in found : TRUE
           u == [orig |-> r, cur |-> Consumed(r, now')]
           after == ApplyUpdate(r, u, now')
       IN  IF found = {}
           THEN /\ store' = store
                /\ resp' = [resp EXCEPT ![p] = [NoResponse EXCEPT !.status = "404"]]
           ELSE /\ store' = (store \ {r}) \cup {after}
                /\ resp' = [resp EXCEPT ![p] =
                              [NoResponse EXCEPT !.status = "200", !.items = {after}]]
    /\ pc' = [pc EXCEPT ![p] = "done"]
    /\ req' = [req EXCEPT ![p] =
                  [op |-> "consume", user |-> user, items |-> <<>>, deleted_ids |-> {id}]]
    /\ sess' = [sess EXCEPT ![p] = EmptySession]
    /\ pre' = [pre EXCEPT ![p] = store]
    /\ UNCHANGED uuids
    /\ UNCHANGED lkvars

----------------------------------------------------------------------------
(* The item endpoints.  Each handler is one SELECT, its assignments and one *)
(* commit; served one request at a time, it is one step.                   *)

(* A select that forgets the user_id condition. *)
SelectItemAnyOwner(rows, id, user) == {r \in rows : r.id = id}

(* select(GroceryItem).where(id == item_id, user_id == current_user.id)    *)
SelectItem(rows, id, user) == {r \in rows : r.id = id /\ r.user_id = user}

ItemRequest(op, user, id, body) ==
    [op |-> op, user |-> user, items |-> <<[id |-> id, body |-> body]>>,
     deleted_ids |-> {}]

Answer(status, rows) == [NoResponse EXCEPT !.status = status, !.items = rows]

(* POST /groceries with a body that fails GroceryItemCreate validation.    *)
CreateReject(p, user, given, raw) ==
    /\ Arrive(p)
    /\ ~Validate(raw)
    /\ store' = store
    /\ resp' = [resp EXCEPT ![p] = Answer("422", {})]
    /\ pc' = [pc EXCEPT ![p] = "done"]
    /\ req' = [req EXCEPT ![p] = ItemRequest("create", user, given, raw)]
    /\ sess' = [sess EXCEPT ![p] = EmptySession]
    /\ pre' = [pre EXCEPT ![p] = store]
    /\ UNCHANGED uuids
    /\ UNCHANGED lkvars

(* create_grocery: the INSERT fails on a primary key that is taken.        *)
CreateGrocery(p, user, given, raw) ==
    /\ Arrive(p)
    /\ Validate(raw)
    /\ given = None => uuids < MaxUuid
    /\ LET id == ItemId(given, uuids + 1)
           row == NewRow(id, user, ParseItem(given, raw), now')
       IN  IF id \in IdsOf(store)
           THEN /\ store' = store
                /\ resp' = [resp EXCEPT ![p] = Answer("500", {})]
           ELSE /\ store' = store \cup {row}
                /\ resp' = [resp EXCEPT ![p] = Answer("201", {row})]
    /\ uuids' = IF given = None THEN uuids + 1 ELSE uuids
    /\ pc' = [pc EXCEPT ![p] = "done"]
    /\ req' = [req EXCEPT ![p] = ItemRequest("create", user, given, raw)]
    /\ sess' = [sess EXCEPT ![p] = EmptySession]
    /\ pre' = [pre EXCEPT ![p] = store]
    /\ UNCHANGED lkvars

(* get_grocery *)
GetGrocery(p, user, id) ==
    /\ Arrive(p)
    /\ LET found == SelectItem(store, id, user)
       IN  resp' = [resp EXCEPT ![p] =
                      IF found = {} THEN Answer("404", {}) ELSE Answer("200", found)]
    /\ pc' = [pc EXCEPT ![p] = "done"]
    /\ req' = [req EXCEPT ![p] = ItemRequest("get", user, Some(id), None)]
    /\ sess' = [sess EXCEPT ![p] = EmptySession]
    /\ pre' = [pre EXCEPT ![p] = store]
    /\ UNCHANGED <<store, uuids>>
    /\ UNCHANGED lkvars

(* get_groceries without the category, location and paging parameters.    *)
GetGroceries(p, user, include_consumed) ==
    /\ Arrive(p)
    /\ resp' = [resp EXCEPT ![p] =
                  Answer("200", {r \in SelectAllOf(user) :
                                    include_consumed \/ ~r.is_consumed})]
    /\ pc' = [pc EXCEPT ![p] = "done"]
    /\ req' = [req EXCEPT ![p] =
                  [op |-> "list", user |-> user, items |-> <<>>, deleted_ids |-> {}]]
    /\ sess' = [sess EXCEPT ![p] = EmptySession]
    /\ pre' = [pre EXCEPT ![p] = store]
    /\ UNCHANGED <<store, uuids>>
    /\ UNCHANGED lkvars

(* GroceryItemUpdate: every key of a PATCH body is absent (None), present   *)
(* with null (Some(None)) or present with a value (Some(Some(v))).         *)
UpdateFields == SubmittedFields \cup {"is_consumed", "consumed_date"}

NoPatch ==
    [name |-> None, category |-> None, storage_location |-> None,
     quantity |-> None, unit |-> None, purchase_date |-> None,
     expiration_date |-> None, predicted_expiration_date |-> None,
     confidence_score |-> None, barcode |-> None, notes |-> None,
     is_consumed |-> None, consumed_date |-> None]

Value(v) == Some(Some(v))
NullValue == Some(None)

PatchBodies ==
    {NoPatch,
     [NoPatch EXCEPT !.name = Value("Skim")],
     [NoPatch EXCEPT !.quantity = Value(3), !.notes = NullValue],
     [NoPatch EXCEPT !.category = Value("Produce"),
                     !.storage_location = Value("Counter")],
     [NoPatch EXCEPT !.is_consumed = Value(TRUE)],
     [NoPatch EXCEPT !.is_consumed = Value(TRUE), !.consumed_date = Value(2)],
     [NoPatch EXCEPT !.consumed_date = Value(1)],
     [NoPatch EXCEPT !.category = NullValue],
     [NoPatch EXCEPT !.quantity = Value(0)],
     [NoPatch EXCEPT !.confidence_score = Value(2)],
     [NoPatch EXCEPT !.category = Value("Candy")]}

(* A schema without the constraints on the values. *)
ValidatePatchUnconstrained(patch) == TRUE

(* GroceryItemUpdate: the declarative validation; null passes every        *)
(* Optional field.                                                         *)
ValidatePatch(patch) ==
    LET Has(f) == patch[f] # None /\ patch[f][1] # None
        V(f) == patch[f][1][1]
    IN  /\ Has("name") => Len(V("name")) >= 1 /\ Len(V("name")) <= MaxNameLen
        /\ Has("category") => V("category") \in FoodCategory
        /\ Has("storage_location") => V("storage_location") \in StorageLocation
        /\ Has("quantity") => V("quantity") > 0
        /\ Has("unit") => Len(V("unit")) <= MaxUnitLen
        /\ Has("confidence_score") =>
                V("confidence_score") >= 0 /\ V("confidence_score") <= 1
        /\ Has("barcode") => Len(V("barcode")) <= MaxBarcodeLen

(* The columns of grocery_items declared Mapped[T] without Optional.       *)
NotNullColumns ==
    {"name", "category", "storage_location", "quantity", "unit",
     "purchase_date", "is_consumed"}

(* The UPDATE would store NULL in a NOT NULL column: IntegrityError.       *)
NullIntoNotNull(patch) == \E f \in NotNullColumns : patch[f] = NullValue

(* An update that resets every field the body leaves out. *)
PatchedAsReplacement(row, patch) ==
    LET blank == NewRow(row.id, row.user_id, ParseItem(None, RawBread), row.created_at)
        Col(f) == IF patch[f] = None THEN blank[f]
                  ELSE IF f \in NotNullColumns THEN patch[f][1][1]
                  ELSE patch[f][1]
    IN  [row EXCEPT
            !.name = Col("name"),
            !.category = Col("category"),
            !.storage_location = Col("storage_location"),
            !.quantity = Col("quantity"),
            !.unit = Col("unit"),
            !.purchase_date = Col("purchase_date"),
            !.expiration_date = Col("expiration_date"),
            !.predicted_expiration_date = Col("predicted_expiration_date"),
            !.confidence_score = Col("confidence_score"),
            !.barcode = Col("barcode"),
            !.notes = Col("notes"),
            !.is_consumed = Col("is_consumed"),
            !.consumed_date = Col("consumed_date")]

(* update_grocery: setattr for every key of model_dump(exclude_unset=True). *)
Patched(row, patch) ==
    LET Col(f) == IF patch[f] = None THEN row[f]
                  ELSE IF f \in NotNullColumns THEN patch[f][1][1]
                  ELSE patch[f][1]
    IN  [row EXCEPT
            !.name = Col("name"),
            !.category = Col("category"),
            !.storage_location = Col("storage_location"),
            !.quantity = Col("quantity"),
            !.unit = Col("unit"),
            !.purchase_date = Col("purchase_date"),
            !.expiration_date = Col("expiration_date"),
            !.predicted_expiration_date = Col("predicted_expiration_date"),
            !.confidence_score = Col("confidence_score"),
            !.barcode = Col("barcode"),
            !.notes = Col("notes"),
            !.is_consumed = Col("is_consumed"),
            !.consumed_date = Col("consumed_date")]

(* PATCH /groceries/{item_id} with a body that fails validation.           *)
UpdateReject(p, user, id, patch) ==
    /\ Arrive(p)
    /\ ~ValidatePatch(patch)
    /\ store' = store
    /\ resp' = [resp EXCEPT ![p] = Answer("422", {})]
    /\ pc' = [pc EXCEPT ![p] = "done"]
    /\ req' = [req EXCEPT ![p] = ItemRequest("update", user, Some(id), patch)]
    /\ sess' = [sess EXCEPT ![p] = EmptySession]
    /\ pre' = [pre EXCEPT ![p] = store]
    /\ UNCHANGED uuids
    /\ UNCHANGED lkvars

(* update_grocery *)
UpdateGrocery(p, user, id, patch) ==
    /\ Arrive(p)
    /\ ValidatePatch(patch)
    /\ LET found == SelectItem(store, id, user)
           r == CHOOSE x \in found : TRUE
           after == ApplyUpdate(r, [orig |-> r, cur |-> Patched(r, patch)], now')
       IN  IF found = {}
           THEN /\ store' = store
                /\ resp' = [resp EXCEPT ![p] = Answer("404", {})]
           ELSE IF NullIntoNotNull(patch)
           THEN /\ store' = store
                /\ resp' = [resp EXCEPT ![p] = Answer("500", {})]
           ELSE /\ store' = (store \ {r}) \cup {after}
                /\ resp' = [resp EXCEPT ![p] = Answer("200", {after})]
    /\ pc' = [pc EXCEPT ![p] = "done"]
    /\ req' = [req EXCEPT ![p] = ItemRequest("update", user, Some(id), patch)]
    /\ sess' = [sess EXCEPT ![p] = EmptySession]
    /\ pre' = [pre EXCEPT ![p] = store]
    /\ UNCHANGED uuids
    /\ UNCHANGED lkvars

(* A delete that answers 204 and leaves the row in the table. *)
WithoutKept(rows, found) == rows

(* delete_grocery: db.delete(item) and the commit. *)
Without(rows, found) == rows \ found

DeleteGrocery(p, user, id) ==
    /\ Arrive(p)
    /\ LET found == SelectItem(store, id, user)
       IN  IF found = {}
           THEN /\ store' = store
                /\ resp' = [resp EXCEPT ![p] = Answer("404", {})]
           ELSE /\ store' = Without(store, found)
                /\ resp' = [resp EXCEPT ![p] = Answer("204", {})]
    /\ pc' = [pc EXCEPT ![p] = "done"]
    /\ req' = [req EXCEPT ![p] = ItemRequest("delete", user, Some(id), None)]
    /\ sess' = [sess EXCEPT ![p] = EmptySession]
    /\ pre' = [pre EXCEPT ![p] = store]
    /\ UNCHANGED uuids
    /\ UNCHANGED lkvars

(* The ids of the caller's rows that the request took out of the table.    *)
Removed(p) ==
    {r.id : r \in {x \in pre[p] : x.user_id = req[p].user}}
        \ {r.id : r \in {x \in store : x.user_id = req[p].user}}

(* The response has been sent and the session closed; what is kept of the  *)
(* request is its operation, its user, the ids it removed and its status.  *)
ItemReturn(p) ==
    /\ pc[p] = "done"
    /\ prev' = [NoPrevious EXCEPT !.op = req[p].op,
                                  !.arg = <<req[p].user, Removed(p)>>,
                                  !.status = resp[p].status]
    /\ pc' = [pc EXCEPT ![p] = "idle"]
    /\ req' = [req EXCEPT ![p] = NoRequest]
    /\ sess' = [sess EXCEPT ![p] = EmptySession]
    /\ resp' = [resp EXCEPT ![p] = NoResponse]
    /\ pre' = [pre EXCEPT ![p] = {}]
    /\ UNCHANGED <<store, now, uuids>>
    /\ UNCHANGED <<redis, clients, lk, clock, lookups>>

----------------------------------------------------------------------------
(* The lookup services *)

(* lifespan() of main.py initializes the barcode service before the first  *)
(* request is served; SpoonacularService.initialize() is left to whoever   *)
(* uses the service, and is run between calls, not during one.             *)
Startup ==
    /\ "barcode" \notin clients
    /\ clients' = clients \cup {"barcode"}
    /\ UNCHANGED <<redis, lk, prev, clock, lookups>>
    /\ UNCHANGED gvars

Initialize ==
    /\ "spoonacular" \notin clients
    /\ \A p \in Procs : lk[p].pc = "idle"
    /\ clients' = clients \cup {"spoonacular"}
    /\ UNCHANGED <<redis, lk, prev, clock, lookups>>
    /\ UNCHANGED gvars

(* Time passes on the cache store: its clock moves on to a later instant   *)
(* and the entries whose time to live is over are gone.  A call lasts at   *)
(* most as long as its HTTP timeout, which is short against the steps      *)
(* between the instants, so the clock is read as standing still during a   *)
(* call.                                                                   *)
Instants ==
    {BarcodeNotFoundTtl - 1, BarcodeNotFoundTtl, RecipeDetailTtl, BarcodeFoundTtl}

Elapse ==
    /\ \A p \in Procs : lk[p].pc = "idle"
    /\ \E t \in Instants :
        /\ t > clock
        /\ clock' = t
        /\ redis' = [k \in {x \in DOMAIN redis : t < redis[x].exp} |-> redis[k]]
    /\ UNCHANGED <<clients, lk, prev, lookups>>
    /\ UNCHANGED gvars

(* A call begins: the slot is free and the call is counted. *)
Begin(p) ==
    /\ lk[p].pc = "idle"
    /\ lookups < MaxLookups
    /\ lookups' = lookups + 1

(* The record of a call that starts now. *)
Started == [NoLookup EXCEPT !.seq = lookups + 1, !.since = prev.seq]

(* The response has been sent. *)
LookupReturn(p) ==
    /\ lk[p].pc = "done"
    /\ prev' = Remembered(lk[p])
    /\ lk' = [lk EXCEPT ![p] = NoLookup]
    /\ UNCHANGED <<redis, clients, clock, lookups>>
    /\ UNCHANGED gvars

(* The try block around redis GET and json.loads, shared by the four       *)
(* methods: "error" when the GET raised (down) or the decoding did, "hit"  *)
(* when the text was there and decoded, "miss" otherwise.                  *)
CacheRead(key, down) ==
    IF down THEN [how |-> "error", data |-> None, exp |-> 0]
    ELSE IF Present(key) /\ Truthy(redis[key].text)
    THEN LET data == loads(redis[key].text)
         IN  IF data.raised # ""
             THEN [how |-> "error", data |-> None, exp |-> 0]
             ELSE [how |-> "hit", data |-> data.value, exp |-> redis[key].exp]
    ELSE [how |-> "miss", data |-> None, exp |-> 0]

(* A write whose failure is raised to the caller. *)
CacheWriteRaises(p, ttl, down, status) ==
    /\ redis' = IF down THEN redis
                ELSE setex(lk[p].key, ttl, dumps(lk[p].out.value))
    /\ lk' = [lk EXCEPT ![p] =
                [@ EXCEPT !.pc = "done",
                          !.wrote = IF down THEN "error" ELSE "ok",
                          !.out = IF down THEN Raises("ConnectionError") ELSE @,
                          !.exp = IF down THEN 0 ELSE clock + ttl,
                          !.status = IF down THEN "500" ELSE status]]

(* The try block around setex and the return of the result, shared by the  *)
(* four methods: a failed write changes nothing.                           *)
CacheWrite(p, ttl, down, status) ==
    /\ redis' = IF down THEN redis
                ELSE setex(lk[p].key, ttl, dumps(lk[p].out.value))
    /\ lk' = [lk EXCEPT ![p] =
                [@ EXCEPT !.pc = "done",
                          !.wrote = IF down THEN "error" ELSE "ok",
                          !.exp = IF down THEN 0 ELSE clock + ttl,
                          !.status = status]]

----------------------------------------------------------------------------
(* GET /barcode/{barcode} *)

BarcodeInputs ==
    {<<"1", "2", "3", "4", "5", "6", "7", "8">>, <<" ", "1", "2", "3", "4", "5", "6", "7", "8", " ">>, <<"1", "2", "3", "4", "5", "6", "7", "8", "9", "0", "1", "2", "3">>,
     <<"1", "2", "3", "4", "5", "6", "7", "^2">>,
     <<"1", "2", "3", "4", "5", "6", "7">>, <<"1", "2", "3", "4", "5", "6", "7", "8", "9">>, <<"1", "2", "3", "4", "5", "6", "7", "8", "9", "0", "1">>, <<"1", "2", "3", "4", "5", "6", "7", "a">>, <<"1", "2", "3", "4", " ", "6", "7", "8">>,
     <<" ">>}

BarcodeLengths == {8, 12, 13, 14}

(* A check that accepts digits of any length. *)
ValidBarcodeAnyLength(barcode) == isdigit(strip(barcode))

(* lookup_barcode: cleaned = barcode.strip() and the format check. *)
ValidBarcode(barcode) ==
    LET cleaned == strip(barcode)
    IN  isdigit(cleaned) /\ Len(cleaned) \in BarcodeLengths

BarcodeKey(barcode) == <<"b", "a", "r", "c", "o", "d", "e", ":">> \o barcode

(* lookup_barcode after the service has returned: 404 or the product.      *)
BarcodeStatus(result) ==
    IF ~Truthy(result) \/ ~Truthy(result[2].name)
    THEN "404"
    ELSE "200"

LookupReject(p, barcode) ==
    /\ "barcode" \in clients
    /\ Begin(p)
    /\ ~ValidBarcode(barcode)
    /\ lk' = [lk EXCEPT ![p] =
                [Started EXCEPT !.op = "barcode", !.arg = barcode,
                                 !.pc = "done", !.status = "400"]]
    /\ UNCHANGED <<redis, clients, prev, clock>>
    /\ UNCHANGED gvars

(* BarcodeService.lookup, step 1. *)
LookupCacheReadStep(p, barcode) ==
    /\ "barcode" \in clients
    /\ ValidBarcode(barcode)
    /\ \E down \in BOOLEAN :
        LET key == BarcodeKey(strip(barcode))
            got == CacheRead(key, down)
            call == [Started EXCEPT !.op = "barcode", !.arg = barcode,
                                     !.key = key, !.read = got.how]
        IN  lk' = [lk EXCEPT ![p] =
                     IF got.how = "hit"
                     THEN [call EXCEPT !.pc = "done", !.out = Returns(got.data),
                                       !.exp = got.exp,
                                       !.status = BarcodeStatus(got.data)]
                     ELSE [call EXCEPT !.pc = "upstream"]]
    /\ UNCHANGED <<redis, clients, prev, clock>>
    /\ UNCHANGED gvars

LookupCacheRead(p, barcode) ==
    /\ Begin(p)
    /\ LookupCacheReadStep(p, barcode)

(* BarcodeService.lookup, step 2. *)
LookupUpstream(p) ==
    /\ lk[p].op = "barcode"
    /\ lk[p].pc = "upstream"
    /\ \E response \in ProductResponses :
        LET out == query_open_food_facts(response, strip(lk[p].arg))
        IN  lk' = [lk EXCEPT ![p] =
                     IF out.raised # ""
                     THEN [@ EXCEPT !.pc = "done", !.calls = 1, !.up = Some(response), !.out = out,
                                    !.status = "500"]
                     ELSE [@ EXCEPT !.pc = "write", !.calls = 1, !.up = Some(response), !.out = out]]
    /\ UNCHANGED <<redis, clients, prev, clock, lookups>>
    /\ UNCHANGED gvars

(* One time to live for every outcome. *)
BarcodeTtlAlwaysLong(product) == BarcodeFoundTtl

(* BarcodeService.lookup, step 3, and the endpoint's answer. *)
BarcodeTtl(product) ==
    IF Truthy(product) THEN BarcodeFoundTtl ELSE BarcodeNotFoundTtl

LookupCacheWrite(p) ==
    /\ lk[p].op = "barcode"
    /\ lk[p].pc = "write"
    /\ LET product == lk[p].out.value
       IN  \E down \in BOOLEAN :
            CacheWrite(p, BarcodeTtl(product), down, BarcodeStatus(product))
    /\ UNCHANGED <<clients, prev, clock, lookups>>
    /\ UNCHANGED gvars

----------------------------------------------------------------------------
(* SpoonacularService *)

(* The answers of Spoonacular: the transport fails, or a response arrives  *)
(* with a status code and a body that is JSON text or not.                 *)
RecipeResponse(code, json, body) ==
    [error |-> FALSE, status_code |-> code, json |-> json, body |-> body]

RecipeFailures ==
    {[RecipeResponse(0, FALSE, None) EXCEPT !.error = TRUE],
     RecipeResponse(404, TRUE, None),
     RecipeResponse(500, FALSE, None),
     RecipeResponse(200, FALSE, None)}

(* response.raise_for_status() *)
IsErrorStatus(code) == code >= 400

SearchArgs ==
    {[query |-> q, ingredients |-> i, diet |-> None, max_ready_time |-> None,
      number |-> 10, offset |-> 0] :
        q \in {None}, i \in {Some(<<<<"e", "g", "g">>, <<"h", "a", "m">>>>), Some(<<<<"h", "a", "m">>, <<"e", "g", "g">>>>)}}

SearchResponses ==
    RecipeFailures \cup
    {RecipeResponse(200, TRUE, [results |-> None, totalResults |-> None]),
     RecipeResponse(200, TRUE, [results |-> Some(List(<<Omelette, Untitled>>)),
                                totalResults |-> Some(Number(2))])}

EmptySearch == Dict([results |-> <<>>, totalResults |-> Number(0)])

(* search_recipes: the cache check; without initialize() redis_client is   *)
(* None and the attribute error is swallowed with the others.              *)
SearchCacheRead(p, a) ==
    /\ Begin(p)
    /\ \E down \in BOOLEAN :
        LET key == SearchKey(a)
            got == CacheRead(key, down \/ "spoonacular" \notin clients)
            call == [Started EXCEPT !.op = "search", !.arg = a,
                                     !.key = key, !.read = got.how]
        IN  lk' = [lk EXCEPT ![p] =
                     IF got.how = "hit"
                     THEN [call EXCEPT !.pc = "done", !.out = Returns(got.data),
                                       !.exp = got.exp, !.status = "200"]
                     ELSE [call EXCEPT !.pc = "upstream"]]
    /\ UNCHANGED <<redis, clients, prev, clock>>
    /\ UNCHANGED gvars

(* search_recipes: the request and the parsing of the results; without     *)
(* initialize() http_client is None and the attribute error is not an      *)
(* httpx.HTTPError.                                                        *)
SearchUpstream(p) ==
    /\ lk[p].op = "search"
    /\ lk[p].pc = "upstream"
    /\ IF "spoonacular" \notin clients
       THEN lk' = [lk EXCEPT ![p] =
                     [@ EXCEPT !.pc = "done", !.out = Raises("AttributeError"),
                               !.status = "500"]]
       ELSE \E response \in SearchResponses :
            lk' = [lk EXCEPT ![p] =
                     IF response.error \/ IsErrorStatus(response.status_code)
                     THEN [@ EXCEPT !.pc = "done", !.calls = 1, !.up = Some(response),
                                    !.out = Returns(EmptySearch), !.status = "200"]
                     ELSE IF ~response.json
                     THEN [@ EXCEPT !.pc = "done", !.calls = 1, !.up = Some(response),
                                    !.out = Raises("JSONDecodeError"),
                                    !.status = "500"]
                     ELSE [@ EXCEPT !.pc = "write", !.calls = 1, !.up = Some(response),
                                    !.out = Returns(Dict(
                                        [results |->
                                            Map(parse_recipe_summary,
                                                Get(response.body.results, List(<<>>))[2]),
                                         totalResults |->
                                            Get(response.body.totalResults, Number(0))]))]]
    /\ UNCHANGED <<redis, clients, prev, clock, lookups>>
    /\ UNCHANGED gvars

SearchCacheWrite(p) ==
    /\ lk[p].op = "search"
    /\ lk[p].pc = "write"
    /\ \E down \in BOOLEAN : CacheWrite(p, RecipeSearchTtl, down, "200")
    /\ UNCHANGED <<clients, prev, clock, lookups>>
    /\ UNCHANGED gvars

ByIngredientsArgs ==
    {[ingredients |-> i, number |-> 10, ranking |-> 1] :
        i \in {<<<<"e", "g", "g">>, <<"h", "a", "m">>>>, <<<<"h", "a", "m">>, <<"e", "g", "g">>>>}}

ByIngredientsResponses ==
    RecipeFailures \cup
    {RecipeResponse(200, TRUE, List(<<>>)),
     RecipeResponse(200, TRUE, List(<<Omelette>>))}

(* search_by_ingredients *)
ByIngredientsCacheRead(p, a) ==
    /\ Begin(p)
    /\ \E down \in BOOLEAN :
        LET key == ByIngredientsKey(a)
            got == CacheRead(key, down \/ "spoonacular" \notin clients)
            call == [Started EXCEPT !.op = "by_ingredients", !.arg = a,
                                     !.key = key, !.read = got.how]
        IN  lk' = [lk EXCEPT ![p] =
                     IF got.how = "hit"
                     THEN [call EXCEPT !.pc = "done", !.out = Returns(got.data),
                                       !.exp = got.exp, !.status = "200"]
                     ELSE [call EXCEPT !.pc = "upstream"]]
    /\ UNCHANGED <<redis, clients, prev, clock>>
    /\ UNCHANGED gvars

ByIngredientsUpstream(p) ==
    /\ lk[p].op = "by_ingredients"
    /\ lk[p].pc = "upstream"
    /\ IF "spoonacular" \notin clients
       THEN lk' = [lk EXCEPT ![p] =
                     [@ EXCEPT !.pc = "done", !.out = Raises("AttributeError"),
                               !.status = "500"]]
       ELSE \E response \in ByIngredientsResponses :
            lk' = [lk EXCEPT ![p] =
                     IF response.error \/ IsErrorStatus(response.status_code)
                     THEN [@ EXCEPT !.pc = "done", !.calls = 1, !.up = Some(response),
                                    !.out = Returns(List(<<>>)), !.status = "200"]
                     ELSE IF ~response.json
                     THEN [@ EXCEPT !.pc = "done", !.calls = 1, !.up = Some(response),
                                    !.out = Raises("JSONDecodeError"),
                                    !.status = "500"]
                     ELSE [@ EXCEPT !.pc = "write", !.calls = 1, !.up = Some(response),
                                    !.out = Returns(List(
                                        Map(parse_ingredient_search_result,
                                            response.body[2])))]]
    /\ UNCHANGED <<redis, clients, prev, clock, lookups>>
    /\ UNCHANGED gvars

ByIngredientsCacheWrite(p) ==
    /\ lk[p].op = "by_ingredients"
    /\ lk[p].pc = "write"
    /\ \E down \in BOOLEAN : CacheWrite(p, ByIngredientsTtl, down, "200")
    /\ UNCHANGED <<clients, prev, clock, lookups>>
    /\ UNCHANGED gvars

RecipeIds == {7}

DetailResponses ==
    RecipeFailures \cup
    {RecipeResponse(200, TRUE, Omelette), RecipeResponse(200, TRUE, Untitled)}

(* get_recipe_detail after the service has returned: 404 or the recipe.    *)
DetailStatus(result) == IF ~Truthy(result) THEN "404" ELSE "200"

(* get_recipe_details *)
DetailCacheRead(p, recipe_id) ==
    /\ Begin(p)
    /\ \E down \in BOOLEAN :
        LET key == DetailKey(recipe_id)
            got == CacheRead(key, down \/ "spoonacular" \notin clients)
            call == [Started EXCEPT !.op = "detail", !.arg = recipe_id,
                                     !.key = key, !.read = got.how]
        IN  lk' = [lk EXCEPT ![p] =
                     IF got.how = "hit"
                     THEN [call EXCEPT !.pc = "done", !.out = Returns(got.data),
                                       !.exp = got.exp,
                                       !.status = DetailStatus(got.data)]
                     ELSE [call EXCEPT !.pc = "upstream"]]
    /\ UNCHANGED <<redis, clients, prev, clock>>
    /\ UNCHANGED gvars

DetailUpstream(p) ==
    /\ lk[p].op = "detail"
    /\ lk[p].pc = "upstream"
    /\ IF "spoonacular" \notin clients
       THEN lk' = [lk EXCEPT ![p] =
                     [@ EXCEPT !.pc = "done", !.out = Raises("AttributeError"),
                               !.status = "500"]]
       ELSE \E response \in DetailResponses :
            lk' = [lk EXCEPT ![p] =
                     IF response.error \/ response.status_code = 404
                            \/ IsErrorStatus(response.status_code)
                     THEN [@ EXCEPT !.pc = "done", !.calls = 1, !.up = Some(response),
                                    !.out = Returns(None),
                                    !.status = DetailStatus(None)]
                     ELSE IF ~response.json
                     THEN [@ EXCEPT !.pc = "done", !.calls = 1, !.up = Some(response),
                                    !.out = Raises("JSONDecodeError"),
                                    !.status = "500"]
                     ELSE [@ EXCEPT !.pc = "write", !.calls = 1, !.up = Some(response),
                                    !.out = Returns(Dict(
                                        parse_recipe_detail(response.body)))]]
    /\ UNCHANGED <<redis, clients, prev, clock, lookups>>
    /\ UNCHANGED gvars

DetailCacheWrite(p) ==
    /\ lk[p].op = "detail"
    /\ lk[p].pc = "write"
    /\ \E down \in BOOLEAN :
        CacheWrite(p, RecipeDetailTtl, down, DetailStatus(lk[p].out.value))
    /\ UNCHANGED <<clients, prev, clock, lookups>>
    /\ UNCHANGED gvars

----------------------------------------------------------------------------
(* One request at a time: the slot p1 serves every request to completion.  *)

Next ==
    \/ \E r \in SyncRequests : SyncReject("p1", r)
    \/ \E r \in SyncRequests : SyncStart("p1", r)
    \/ SyncItem("p1")
    \/ SyncCommit("p1")
    \/ SyncRespond("p1")
    \/ \E u \in Users : \E id \in ClientIds : MarkConsumed("p1", u, id)
    \/ Return("p1")

Spec == Init /\ [][Next]_vars

(* Two requests of one user in flight at once: every await of the handler  *)
(* is a point where the other request may run.                             *)
ConcRequests ==
    {r \in SyncRequests :
        r.user = "A" /\ Len(r.items) <= 1 /\ r.deleted_ids \subseteq ClientIds}

NextConc ==
    \/ \E p \in Procs : \E r \in ConcRequests : SyncReject(p, r)
    \/ \E p \in Procs : \E r \in ConcRequests : SyncStart(p, r)
    \/ \E p \in Procs : SyncItem(p)
    \/ \E p \in Procs : SyncCommit(p)
    \/ \E p \in Procs : SyncRespond(p)
    \/ \E p \in Procs : Return(p)

SpecConc == Init /\ [][NextConc]_vars

(* Every endpoint of /groceries, one request at a time. *)
ItemSyncRequests ==
    {r \in SyncRequests : Len(r.items) <= 1 /\ r.deleted_ids \subseteq ClientIds}

NextItems ==
    \/ \E u \in Users : \E g \in {None} \cup {Some(c) : c \in ClientIds} :
            \E raw \in InvalidRaw : CreateReject("p1", u, g, raw)
    \/ \E u \in Users : \E g \in {None} \cup {Some(c) : c \in ClientIds} :
            \E raw \in ValidRaw : CreateGrocery("p1", u, g, raw)
    \/ \E u \in Users : \E id \in DeletableIds : GetGrocery("p1", u, id)
    \/ \E u \in Users : \E c \in BOOLEAN : GetGroceries("p1", u, c)
    \/ \E u \in Users : \E id \in DeletableIds :
            \E patch \in PatchBodies : UpdateReject("p1", u, id, patch)
    \/ \E u \in Users : \E id \in DeletableIds :
            \E patch \in PatchBodies : UpdateGrocery("p1", u, id, patch)
    \/ \E u \in Users : \E id \in DeletableIds : DeleteGrocery("p1", u, id)
    \/ \E u \in Users : \E id \in DeletableIds : MarkConsumed("p1", u, id)
    \/ \E r \in ItemSyncRequests : SyncReject("p1", r)
    \/ \E r \in ItemSyncRequests : SyncStart("p1", r)
    \/ SyncItem("p1")
    \/ SyncCommit("p1")
    \/ SyncRespond("p1")
    \/ ItemReturn("p1")

SpecItems == Init /\ [][NextItems]_vars

(* The lookup services, one call at a time. *)
NextLookup ==
    \/ Startup
    \/ Initialize
    \/ Elapse
    \/ \E b \in BarcodeInputs : LookupReject("p1", b)
    \/ \E b \in BarcodeInputs : LookupCacheRead("p1", b)
    \/ LookupUpstream("p1")
    \/ LookupCacheWrite("p1")
    \/ \E a \in SearchArgs : SearchCacheRead("p1", a)
    \/ SearchUpstream("p1")
    \/ SearchCacheWrite("p1")
    \/ \E a \in ByIngredientsArgs : ByIngredientsCacheRead("p1", a)
    \/ ByIngredientsUpstream("p1")
    \/ ByIngredientsCacheWrite("p1")
    \/ \E id \in RecipeIds : DetailCacheRead("p1", id)
    \/ DetailUpstream("p1")
    \/ DetailCacheWrite("p1")
    \/ LookupReturn("p1")

SpecLookup == Init /\ [][NextLookup]_vars

(* search_recipes called with texts that contain the separators of the     *)
(* cache key.                                                              *)
SeparatorArgs ==
    {[query |-> q, ingredients |-> i, diet |-> None, max_ready_time |-> None,
      number |-> 10, offset |-> 0] :
        q \in {None, Some(<<"a">>), Some(<<"a", ":", "i", ":", "b">>)},
        i \in {None, Some(<<<<"b", ":", "i", ":">>>>), Some(<<<<"a", ",", "b">>>>),
               Some(<<<<"a">>, <<"b">>>>), Some(<<<<"b">>, <<"a">>>>)}}

NextKeys ==
    \/ Initialize
    \/ \E a \in SeparatorArgs : SearchCacheRead("p1", a)
    \/ SearchUpstream("p1")
    \/ SearchCacheWrite("p1")
    \/ LookupReturn("p1")

SpecKeys == Init /\ [][NextKeys]_vars

(* Lookups of one barcode by two callers at a time: the steps of the two   *)
(* calls of BarcodeService.lookup interleave at each await.                *)
RaceBarcodes == {<<"1", "2", "3", "4", "5", "6", "7", "8">>}

RaceBegin(p) ==
    /\ lk[p].pc = "idle"
    /\ lookups < MaxRaceLookups
    /\ lookups' = lookups + 1

RaceCacheRead(p, barcode) ==
    /\ RaceBegin(p)
    /\ LookupCacheReadStep(p, barcode)

NextRace ==
    \/ Startup
    \/ \E b \in RaceBarcodes : RaceCacheRead("p1", b)
    \/ \E b \in RaceBarcodes : RaceCacheRead("p2", b)
    \/ LookupUpstream("p1")
    \/ LookupUpstream("p2")
    \/ LookupCacheWrite("p1")
    \/ LookupCacheWrite("p2")
    \/ LookupReturn("p1")
    \/ LookupReturn("p2")

SpecRace == Init /\ [][NextRace]_vars

(* _map_category on its own: a call with every list of up to MaxTags tags. *)
TagLists == SeqsUpTo(Tags, MaxTags)

InitCategory ==
    /\ Constructed
    /\ \E tags \in TagLists :
        lk = [p \in Procs |->
                IF p = "p1"
                THEN [NoLookup EXCEPT !.op = "map_category", !.arg = tags,
                                      !.pc = "call"]
                ELSE NoLookup]

MapCategory(p) ==
    /\ lk[p].op = "map_category"
    /\ lk[p].pc = "call"
    /\ lk' = [lk EXCEPT ![p] =
                [@ EXCEPT !.pc = "done",
                          !.out = Returns(map_category(lk[p].arg))]]
    /\ UNCHANGED <<redis, clients, prev, clock, lookups>>
    /\ UNCHANGED gvars

NextCategory == MapCategory("p1")

SpecCategory == InitCategory /\ [][NextCategory]_vars

----------------
(* Vocabulary of the properties *)

Finished(p) == pc[p] = "done" /\ req[p].op = "sync"
Succeeded(p) == Finished(p) /\ resp[p].status = "200"
Failed(p) == Finished(p) /\ resp[p].status # "200"

Own(rows, u) == {r \in rows : r.user_id = u}
Others(rows, u) == {r \in rows : r.user_id # u}

Submits(r, x) == \E i \in 1..Len(r.items) : r.items[i].id = Some(x)

(* Item i is the last item of the batch that resolved to its id. *)
LastOfItsId(p, i) ==
    \A j \in (i + 1)..Len(sess[p].ids) : sess[p].ids[j] # sess[p].ids[i]

Submitted(p, i) == ParseItem(req[p].items[i].id, req[p].items[i].body)

Carries(row, item) ==
    /\ row.name = item.name
    /\ row.category = item.category
    /\ row.storage_location = item.storage_location
    /\ row.quantity = item.quantity
    /\ row.unit = item.unit
    /\ row.purchase_date = item.purchase_date
    /\ row.expiration_date = item.expiration_date
    /\ row.predicted_expiration_date = item.predicted_expiration_date
    /\ row.confidence_score = item.confidence_score
    /\ row.barcode = item.barcode
    /\ row.notes = item.notes

----------------------------------------------------------------------------
(* C1: a successful sync whose deleted_ids contains X and whose items      *)
(* contain an item with id X, X being a record of the caller, ends with X  *)
(* absent from the caller's stored items and from the returned items.      *)
C1_DeleteWinsOverUpdate ==
    \A p \in Procs :
        Succeeded(p) =>
            \A x \in req[p].deleted_ids :
                (Submits(req[p], x) /\ x \in IdsOf(Own(pre[p], req[p].user))) =>
                    /\ x \notin IdsOf(Own(store, req[p].user))
                    /\ x \notin IdsOf(resp[p].items)

(* C2: when A's sync submits an item whose id is owned by B, the call      *)
(* succeeds, A gains a new item carrying the submitted fields, and B's     *)
(* record is unchanged.                                                    *)
C2_CrossUserIsolation ==
    \A p \in Procs :
        (Finished(p) /\ ValidRequest(req[p])) =>
            \A i \in 1..Len(req[p].items) :
                (/\ req[p].items[i].id # None
                 /\ req[p].items[i].id[1] \in IdsOf(Others(pre[p], req[p].user))) =>
                    /\ resp[p].status = "200"
                    /\ \E r \in Own(store, req[p].user) \ pre[p] :
                            Carries(r, Submitted(p, i))
                    /\ Others(store, req[p].user) = Others(pre[p], req[p].user)

----------------------------------------------------------------------------
(* Every item of the batch is stored under the caller and every deleted id *)
(* that was not re-submitted is gone.                                      *)
AllApplied(p) ==
    /\ \A i \in 1..Len(req[p].items) :
          \E r \in Own(store, req[p].user) :
              /\ r.id = sess[p].ids[i]
              /\ (LastOfItsId(p, i) => Carries(r, Submitted(p, i)))
    /\ \A x \in req[p].deleted_ids :
          ~Submits(req[p], x) => x \notin IdsOf(Own(store, req[p].user))

(* C3: after a failed sync the table is the table before the call; after a *)
(* successful one every item and every delete of the batch is applied.     *)
C3_SyncAtomic ==
    \A p \in Procs :
        /\ (Failed(p) => store = pre[p])
        /\ (Succeeded(p) => AllApplied(p))

(* A call that failed at the commit after its DELETE had matched a row and *)
(* one of its two items had been added as a new record.                    *)
C3_Witness ==
    \E p \in Procs :
        /\ Failed(p)
        /\ resp[p].status = "500"
        /\ sess[p].del # {}
        /\ Len(req[p].items) = 2
        /\ \E n \in sess[p].new : n.id \notin IdsOf(pre[p])

(* C4: when the handler finds the submitted id under the caller, the       *)
(* record afterwards carries every submitted field (defaults and nulls for *)
(* the omitted ones), and its id, user_id and created_at are unchanged.    *)
C4_LastWriteWins ==
    \A p \in Procs :
        Succeeded(p) =>
            \A i \in 1..Len(req[p].items) :
                (sess[p].hit[i] /\ LastOfItsId(p, i)) =>
                    \E r \in Own(store, req[p].user) :
                        /\ r.id = sess[p].ids[i]
                        /\ Carries(r, Submitted(p, i))
                        /\ \A r0 \in pre[p] \ sess[p].del :
                              r0.id = r.id =>
                                  /\ r.user_id = r0.user_id
                                  /\ r.created_at = r0.created_at

(* An older record holding the full item was overwritten by an item that   *)
(* leaves every optional field out.                                        *)
C4_Witness ==
    \E p \in Procs :
        /\ Succeeded(p)
        /\ \E i \in 1..Len(req[p].items) :
              /\ sess[p].hit[i]
              /\ req[p].items[i].body = RawBread
              /\ \E r0 \in pre[p] \ sess[p].del :
                    /\ r0.id = sess[p].ids[i]
                    /\ r0.notes # None
                    /\ r0.created_at < sess[p].t
                    /\ \E r \in store : r.id = r0.id /\ r.notes = None /\ r.unit = "piece"

C6_FreshIds ==
    \A p \in Procs :
        Succeeded(p) =>
            /\ \A i \in 1..Len(req[p].items) :
                  req[p].items[i].id = None =>
                      /\ sess[p].ids[i] \notin IdsOf(pre[p])
                      /\ \A j \in 1..Len(req[p].items) : j # i => sess[p].ids[j] # sess[p].ids[i]
                      /\ Cardinality({r \in store : r.id = sess[p].ids[i]}) = 1
                      /\ \E r \in Own(store, req[p].user) :
                            r.id = sess[p].ids[i] /\ Carries(r, Submitted(p, i))
            /\ (/\ Len(req[p].items) = 1
                /\ req[p].items[1].id = None
                /\ Own(pre[p], req[p].user) = {}) => Cardinality(resp[p].items) = 1

C6_Witness ==
    \E p \in Procs :
        /\ Succeeded(p)
        /\ pre[p] # {}
        /\ Len(req[p].items) = 2
        /\ req[p].items[1].id = None
        /\ req[p].items[2].id = None
        /\ Cardinality(Own(store, req[p].user) \ pre[p]) = 2

C8_DeleteScopedToCaller ==
    \A p \in Procs :
        (Finished(p) /\ ValidRequest(req[p])) =>
            /\ Others(store, req[p].user) = Others(pre[p], req[p].user)
            /\ (Succeeded(p) =>
                    \A x \in req[p].deleted_ids :
                        ~Submits(req[p], x) => x \notin IdsOf(Own(store, req[p].user)))
            /\ (Failed(p) =>
                    \E i \in 1..Len(req[p].items) :
                        /\ req[p].items[i].id # None
                        /\ req[p].items[i].id[1] \in IdsOf(Others(pre[p], req[p].user)))

(* D named a record of the caller, which went, and a record of another     *)
(* user, which stayed.                                                     *)
C8_Witness ==
    \E p \in Procs :
        /\ Succeeded(p)
        /\ req[p].deleted_ids \cap IdsOf(Own(pre[p], req[p].user)) # {}
        /\ req[p].deleted_ids \cap IdsOf(Others(pre[p], req[p].user)) # {}
        /\ req[p].deleted_ids \cap IdsOf(Others(store, req[p].user)) # {}

(* C9: the items of a successful sync response are exactly the caller's    *)
(* records in the table after the merge, consumed ones included, and its   *)
(* deleted_ids list is empty.                                              *)
C9_ResponseIsCallersSet ==
    \A p \in Procs :
        Succeeded(p) =>
            /\ resp[p].items = Own(store, req[p].user)
            /\ resp[p].deleted_ids = <<>>

C9_Witness ==
    \E p \in Procs :
        /\ Succeeded(p)
        /\ \E r \in resp[p].items : r.is_consumed
        /\ \E r \in resp[p].items : ~r.is_consumed

----------------------------------------------------------------------------
(* C10: every interleaving of two syncs of one user completes both calls   *)
(* without a fault and leaves exactly one record per id.                   *)
C10_ConcurrentSyncsComplete ==
    /\ \A p \in Procs :
          (Finished(p) /\ ValidRequest(req[p])) => resp[p].status = "200"
    /\ \A x \in IdsOf(store) : Cardinality({r \in store : r.id = x}) = 1

----------------------------------------------------------------------------
(* Vocabulary of the lookup properties *)

Returned(p, op) == lk[p].op = op /\ lk[p].pc = "done"

(* The call neither read nor wrote the cache and sent nothing upstream.    *)
Untouched(p) ==
    lk[p].read = "none" /\ lk[p].calls = 0 /\ lk[p].wrote = "none"

(* ^\d{8}$|^\d{12}$|^\d{13}$|^\d{14}$ *)
MatchesPattern(s) ==
    Len(s) \in {8, 12, 13, 14} /\ \A i \in 1..Len(s) : s[i] \in AsciiDigits

(* 8, 12, 13 or 14 characters, each a digit in the sense of str.isdigit.   *)
DigitsOfLength(s) ==
    Len(s) \in {8, 12, 13, 14} /\ \A i \in 1..Len(s) : s[i] \in DigitChars

----------------------------------------------------------------------------
(* The call in slot p follows a call to the same key whose cache entry is  *)
(* still within its time to live, and its own cache read did not fail.     *)
FollowsWithinTtl(p, op) ==
    /\ Returned(p, op)
    /\ lk[p].key # <<>>
    /\ prev.op = op
    /\ prev.key = lk[p].key
    /\ clock < prev.exp
    /\ lk[p].read # "error"

(* C12: with the cache store reachable, the second of two successive       *)
(* lookups of one barcode within the entry's time to live returns what the *)
(* first returned and makes no upstream call.                              *)
C12_BarcodeIdempotent ==
    \A p \in Procs :
        FollowsWithinTtl(p, "barcode") =>
            /\ lk[p].calls = 0
            /\ lk[p].out = prev.out
            /\ lk[p].status = prev.status

C12_Witness ==
    \E p \in Procs :
        /\ FollowsWithinTtl(p, "barcode")
        /\ lk[p].status = "200"
        /\ lk[p].arg # prev.arg
        /\ clock > 0

(* C13: after a barcode lookup answered NotFound, a second lookup of the   *)
(* barcode within the marker's 3600 s answers NotFound without an upstream *)
(* call; once the 3600 s are over the key is absent and the next lookup    *)
(* queries upstream; NotFound for an absent key is never answered without  *)
(* an upstream query.                                                      *)
C13_NegativeCaching ==
    \A p \in Procs :
        /\ (FollowsWithinTtl(p, "barcode") /\ prev.status = "404") =>
                (lk[p].status = "404" /\ lk[p].calls = 0)
        /\ (Returned(p, "barcode") /\ lk[p].wrote = "ok" /\ lk[p].status = "404") =>
                lk[p].exp = clock + 3600
        /\ ((\A q \in Procs : lk[q].pc = "idle") /\ prev.op = "barcode"
                /\ prev.status = "404" /\ clock >= prev.exp) =>
                ~Present(prev.key)
        /\ (Returned(p, "barcode") /\ prev.op = "barcode" /\ prev.status = "404"
                /\ prev.key = lk[p].key /\ clock >= prev.exp) =>
                lk[p].calls = 1
        /\ (Returned(p, "barcode") /\ lk[p].status = "404" /\ lk[p].read # "hit") =>
                lk[p].calls = 1

C13_Witness ==
    \E p \in Procs :
        /\ FollowsWithinTtl(p, "barcode")
        /\ prev.status = "404"
        /\ clock = 3599
        /\ lk[p].status = "404"

(* The marker has expired and the barcode is looked up again. *)
C13_RequeryReached ==
    \E p \in Procs :
        /\ Returned(p, "barcode")
        /\ prev.op = "barcode" /\ prev.status = "404"
        /\ prev.key = lk[p].key /\ clock >= prev.exp
        /\ lk[p].calls = 1

(* C14: a failure of the cache never reaches the caller of a lookup: after *)
(* a failed or undecodable read the upstream is queried as for a miss, and *)
(* after a failed write the computed result is returned.                   *)
LookupOps == {"barcode", "search", "by_ingredients", "detail"}

ServiceOf(op) == IF op = "barcode" THEN "barcode" ELSE "spoonacular"

C14_CacheFailuresSwallowed ==
    \A p \in Procs :
        (lk[p].op \in LookupOps /\ ServiceOf(lk[p].op) \in clients) =>
            /\ (lk[p].read = "error" /\ lk[p].pc # "upstream") => lk[p].calls = 1
            /\ lk[p].wrote = "error" =>
                    /\ lk[p].pc = "done"
                    /\ lk[p].out.raised = ""
                    /\ lk[p].status \in {"200", "404"}
            /\ lk[p].status = "500" =>
                    /\ lk[p].calls = 1
                    /\ lk[p].wrote = "none"
                    /\ lk[p].out.raised \in {"JSONDecodeError", "AttributeError", "TypeError"}

C14_Witness ==
    \E p \in Procs :
        /\ Returned(p, "search")
        /\ lk[p].read = "error"
        /\ lk[p].wrote = "error"
        /\ lk[p].status = "200"
        /\ Truthy(List(lk[p].out.value[2].results))

----------------------------------------------------------------------------
(* The upstream answer of the call in slot p carries a product dict.       *)
HasProduct(p) ==
    /\ lk[p].op = "barcode"
    /\ lk[p].calls = 1
    /\ ~lk[p].up[1].error
    /\ lk[p].up[1].status_code = 200
    /\ lk[p].up[1].json
    /\ lk[p].up[1].status = Some(1)
    /\ lk[p].up[1].product # None
    /\ lk[p].up[1].product[1] # Null

ProductOf(p) == lk[p].up[1].product[1][2]

AllWhitespace(s) == \A i \in 1..Len(s) : s[i] \in Whitespace

(* A product with a name that is a string with a visible character. *)
WellFormedFound(p) ==
    /\ HasProduct(p)
    /\ ProductOf(p).product_name # None
    /\ IsStr(ProductOf(p).product_name[1])
    /\ ~AllWhitespace(ProductOf(p).product_name[1][2])

(* C15: a barcode lookup that misses the cache resolves every upstream     *)
(* outcome other than a well-formed found product to NotFound and raises   *)
(* none of them to the caller.                                             *)
C15_UpstreamFailuresAreNotFound ==
    \A p \in Procs :
        (lk[p].op = "barcode" /\ lk[p].calls = 1 /\ ~WellFormedFound(p)) =>
            /\ lk[p].out = Returns(None)
            /\ lk[p].pc = "done" => lk[p].status = "404"

(* C16: a barcode lookup or recipe-detail lookup that misses the cache and *)
(* ends NotFound writes a not-found marker for its key, with a time to     *)
(* live shorter than that of a found result.                               *)
FoundTtl(op) == IF op = "barcode" THEN BarcodeFoundTtl ELSE RecipeDetailTtl

C16_NotFoundMarkerWritten ==
    \A p \in Procs :
        (/\ lk[p].op \in {"barcode", "detail"}
         /\ lk[p].pc = "done"
         /\ lk[p].read = "miss"
         /\ lk[p].status = "404"
         /\ lk[p].wrote # "error") =>
            /\ lk[p].wrote = "ok"
            /\ Present(lk[p].key)
            /\ loads(redis[lk[p].key].text) = Returns(None)
            /\ redis[lk[p].key].exp - clock < FoundTtl(lk[p].op)

----------------------------------------------------------------------------
(* Two argument lists that differ at most in the order of the ingredients. *)
Count(e, l) == Cardinality({i \in 1..Len(l) : l[i] = e})

IsPermutation(x, y) ==
    /\ Len(x) = Len(y)
    /\ \A i \in 1..Len(x) : Count(x[i], x) = Count(x[i], y)

SameSearch(a, b) ==
    /\ a.query = b.query /\ a.diet = b.diet
    /\ a.max_ready_time = b.max_ready_time
    /\ a.number = b.number /\ a.offset = b.offset
    /\ (a.ingredients = None) = (b.ingredients = None)
    /\ a.ingredients # None => IsPermutation(a.ingredients[1], b.ingredients[1])

SameByIngredients(a, b) ==
    /\ a.number = b.number /\ a.ranking = b.ranking
    /\ IsPermutation(a.ingredients, b.ingredients)

(* The call in slot p follows, within the time to live of the entry, a     *)
(* call of the same method whose arguments differ at most in the order of  *)
(* the ingredients, and its own cache read did not fail.                   *)
FollowsReordered(p) ==
    /\ lk[p].pc = "done"
    /\ lk[p].op = prev.op
    /\ clock < prev.exp
    /\ lk[p].read # "error"
    /\ \/ lk[p].op = "search" /\ SameSearch(prev.arg, lk[p].arg)
       \/ lk[p].op = "by_ingredients" /\ SameByIngredients(prev.arg, lk[p].arg)

(* C17: search_recipes and search_by_ingredients compute one cache key for *)
(* calls that differ only in the order of the ingredients, and the second  *)
(* such call within the time to live is served from the cache without an   *)
(* upstream call.                                                          *)
C17_KeysOrderInsensitive ==
    \A p \in Procs :
        /\ lk[p].op = "search" =>
                \A b \in SearchArgs :
                    SameSearch(lk[p].arg, b) => SearchKey(b) = lk[p].key
        /\ lk[p].op = "by_ingredients" =>
                \A b \in ByIngredientsArgs :
                    SameByIngredients(lk[p].arg, b) => ByIngredientsKey(b) = lk[p].key
        /\ FollowsReordered(p) =>
                /\ lk[p].read = "hit"
                /\ lk[p].calls = 0
                /\ lk[p].out = prev.out

C17_Witness ==
    \E p \in Procs :
        /\ FollowsReordered(p)
        /\ lk[p].op = "by_ingredients"
        /\ lk[p].arg # prev.arg
        /\ Truthy(lk[p].out.value)

----------------------------------------------------------------------------
(* The category the description gives for a list of tags: that of the      *)
(* first keyword, in table order, contained in the lowercase form of the   *)
(* first tag, in list order, that contains any keyword; Other without one. *)
KeywordsIn(tag) ==
    {k \in 1..Len(mapping) : Contains(mapping[k][1], lower(tag))}

Least(S) == CHOOSE k \in S : \A j \in S : k <= j

Described(tags) ==
    LET matching == {i \in 1..Len(tags) : KeywordsIn(tags[i]) # {}}
    IN  IF matching = {} THEN "Other"
        ELSE mapping[Least(KeywordsIn(tags[Least(matching)]))][2]

(* C18: _map_category returns the category of the first tag, in list       *)
(* order, whose lowercase form contains a table keyword, the first such    *)
(* keyword in table order deciding, and Other when no tag contains one;    *)
(* [en:yogurts, en:dairy] gives Dairy and [en:unknown-thing] gives Other.  *)
C18_CategoryMapping ==
    \A p \in Procs :
        (lk[p].op = "map_category" /\ lk[p].pc = "done") =>
            /\ lk[p].out.value = Described(lk[p].arg)
            /\ lk[p].arg = <<<<"e", "n", ":", "y", "o", "g", "u", "r", "t", "s">>, <<"e", "n", ":", "d", "a", "i", "r", "y">>>> =>
                    lk[p].out.value = "Dairy"
            /\ lk[p].arg = <<<<"e", "n", ":", "u", "n", "k", "n", "o", "w", "n", "-", "t", "h", "i", "n", "g">>>> =>
                    lk[p].out.value = "Other"

C18_Witness ==
    \E p \in Procs :
        /\ lk[p].op = "map_category" /\ lk[p].pc = "done"
        /\ lk[p].arg = <<<<"f", "r", ":", "p", "a", "i", "n", "s">>, <<"e", "n", ":", "m", "i", "l", "k", "-", "c", "h", "o", "c", "o", "l", "a", "t", "e", "s">>>>
        /\ Cardinality(KeywordsIn(lk[p].arg[2])) = 2
        /\ lk[p].out.value = "Dairy"

----------------------------------------------------------------------------
(* C19: a product whose name is missing, empty or only whitespace is not   *)
(* found: the endpoint answers NotFound and the marker is cached; of a     *)
(* product with a name, every other output field is the empty string when  *)
(* absent upstream and suggested_category is a grocery category.           *)
NoVisibleName(p) ==
    /\ HasProduct(p)
    /\ \/ ProductOf(p).product_name = None
       \/ /\ IsStr(ProductOf(p).product_name[1])
          /\ AllWhitespace(ProductOf(p).product_name[1][2])

OutputFields ==
    {<<"brand", "brands">>, <<"categories", "categories">>,
     <<"quantity_string", "quantity">>, <<"image_url", "image_front_url">>,
     <<"ingredients_text", "ingredients_text">>,
     <<"nutriscore_grade", "nutriscore_grade">>}

C19_ProductNormalizer ==
    \A p \in Procs :
        /\ NoVisibleName(p) =>
                /\ lk[p].out = Returns(None)
                /\ lk[p].pc = "done" =>
                        /\ lk[p].status = "404"
                        /\ lk[p].wrote \in {"ok", "error"}
                        /\ lk[p].wrote = "ok" =>
                                /\ Present(lk[p].key)
                                /\ redis[lk[p].key].text = <<"n", "u", "l", "l">>
        /\ (HasProduct(p) /\ Truthy(lk[p].out.value)) =>
                /\ \A f \in OutputFields :
                        ProductOf(p)[f[2]] = None =>
                            lk[p].out.value[2][f[1]] = Str(<<>>)
                /\ lk[p].out.value[2].suggested_category \in FoodCategory
        /\ (Returned(p, "barcode") /\ lk[p].status = "200") =>
                lk[p].out.value[2].suggested_category \in FoodCategory

C19_Witness ==
    \E p \in Procs :
        /\ Returned(p, "barcode")
        /\ HasProduct(p)
        /\ ProductOf(p) = Thing
        /\ lk[p].status = "200"
        /\ lk[p].out.value[2].brand = Str(<<>>)
        /\ lk[p].out.value[2].suggested_category = "Other"

(* A nameless product has been answered NotFound and its marker cached. *)
C19_MarkerReached ==
    \E p \in Procs :
        /\ Returned(p, "barcode")
        /\ NoVisibleName(p)
        /\ ProductOf(p).product_name = Some(Str(<<" ", " ">>))
        /\ lk[p].wrote = "ok"

----------------------------------------------------------------------------
(* C20: the updated_at of a grocery item never decreases over the item's   *)
(* lifetime and moves forward with every operation that changes the item,  *)
(* operations in concurrent transactions included.                         *)
C20_UpdatedAtMonotonic ==
    [][\A r \in store : \A q \in store' :
          (q.id = r.id /\ q.created_at = r.created_at) =>
              /\ q.updated_at >= r.updated_at
              /\ q # r => q.updated_at > r.updated_at]_vars

----------------------------------------------------------------------------
(* Vocabulary of the item endpoints *)

Served(p, op) == pc[p] = "done" /\ req[p].op = op

(* The item a direct request addresses, and the body it carries. *)
Target(p) ==
    IF req[p].op = "consume" THEN CHOOSE x \in req[p].deleted_ids : TRUE
    ELSE req[p].items[1].id[1]

Body(p) == req[p].items[1].body

(* The user has a row under the id. *)
Holds(rows, id, user) == \E r \in rows : r.id = id /\ r.user_id = user

DirectOps == {"get", "update", "delete", "consume"}

InRange(row) ==
    /\ row.quantity > 0
    /\ row.confidence_score # None =>
            row.confidence_score[1] >= 0 /\ row.confidence_score[1] <= 1
    /\ row.category \in FoodCategory
    /\ row.storage_location \in StorageLocation

(* The body asks for a value the invariant forbids. *)
OutOfRange(op, body) ==
    LET Val(f) == IF op = "update" THEN body[f][1][1] ELSE body[f][1]
        Has(f) == /\ body[f] # None
                  /\ op = "update" => body[f][1] # None
    IN  \/ Has("quantity") /\ Val("quantity") <= 0
        \/ Has("confidence_score") /\
                (Val("confidence_score") < 0 \/ Val("confidence_score") > 1)
        \/ Has("category") /\ Val("category") \notin FoodCategory
        \/ Has("storage_location") /\ Val("storage_location") \notin StorageLocation

(* C21: every stored grocery item has quantity > 0, confidence_score       *)
(* absent or within [0,1], a category of the category set and a storage    *)
(* location of the location set, after any sequence of create, PATCH,      *)
(* mark_consumed, delete and sync calls; a request asking for a value      *)
(* outside is rejected and changes nothing.                                *)
C21_StoredItemsInRange ==
    /\ \A r \in store : InRange(r)
    /\ \A p \in Procs :
        (/\ pc[p] = "done"
         /\ req[p].op \in {"create", "update", "sync"}
         /\ \E i \in 1..Len(req[p].items) :
                OutOfRange(req[p].op, req[p].items[i].body)) =>
            /\ resp[p].status = "422"
            /\ store = pre[p]

C21_Witness ==
    \E p \in Procs :
        /\ Served(p, "update")
        /\ Body(p).quantity = Value(0)
        /\ Holds(pre[p], Target(p), req[p].user)
        /\ resp[p].status = "422"
        /\ store = pre[p]

(* C22: get, PATCH, delete and mark_consumed on an id that exists only     *)
(* under another owner answer exactly as on an id that exists nowhere,     *)
(* NotFound, and leave the table, the other owner's record included, as it *)
(* was.                                                                    *)
C22_ForeignIdIsNotFound ==
    \A p \in Procs :
        (/\ pc[p] = "done"
         /\ req[p].op \in DirectOps
         /\ resp[p].status # "422"
         /\ ~Holds(pre[p], Target(p), req[p].user)) =>
            /\ resp[p] = Answer("404", {})
            /\ store = pre[p]

C22_Witness ==
    \E p \in Procs :
        /\ Served(p, "update")
        /\ Body(p).name = Value("Skim")
        /\ \E r \in pre[p] : r.id = Target(p) /\ r.user_id # req[p].user
        /\ resp[p].status = "404"

(* C23: deletion is hard.  delete_grocery and a sync deletion take the row *)
(* out of the table; get then answers NotFound and list and sync responses *)
(* do not carry the item; nothing but the table decides what a later       *)
(* request sees, so a create or sync of the same user under the same id    *)
(* inserts the item anew.                                                  *)
RemovedBefore(p, id) ==
    /\ prev.op \in {"delete", "sync"}
    /\ prev.arg[1] = req[p].user
    /\ id \in prev.arg[2]

C23_DeletionIsHard ==
    \A p \in Procs :
        /\ (Served(p, "delete") /\ resp[p].status = "204") =>
                /\ ~Holds(store, Target(p), req[p].user)
                /\ store = {r \in pre[p] : ~(r.id = Target(p) /\ r.user_id = req[p].user)}
        /\ Succeeded(p) =>
                \A id \in req[p].deleted_ids :
                    ~Submits(req[p], id) =>
                        ~Holds(store, id, req[p].user)
        /\ Served(p, "get") =>
                /\ resp[p].status = "404" <=>
                        ~Holds(store, Target(p), req[p].user)
                /\ RemovedBefore(p, Target(p)) => resp[p].status = "404"
        /\ (Served(p, "list") \/ Succeeded(p)) =>
                \A id \in ClientIds :
                    (RemovedBefore(p, id) /\ ~Submits(req[p], id)) =>
                        id \notin IdsOf(resp[p].items)
        /\ (Served(p, "create") /\ req[p].items[1].id # None
                /\ RemovedBefore(p, req[p].items[1].id[1])
                /\ Validate(Body(p))) =>
                /\ resp[p].status = "201" <=>
                        req[p].items[1].id[1] \notin IdsOf(pre[p])
                /\ resp[p].status = "201" =>
                        \E q \in store :
                            /\ q.id = req[p].items[1].id[1]
                            /\ q.user_id = req[p].user
                            /\ q.created_at = now
                            /\ Carries(q, ParseItem(req[p].items[1].id, Body(p)))
        /\ Succeeded(p) =>
                \A i \in 1..Len(req[p].items) :
                    (/\ req[p].items[i].id # None
                     /\ RemovedBefore(p, req[p].items[i].id[1])) =>
                        \E q \in store :
                            /\ q.id = req[p].items[i].id[1]
                            /\ q.user_id = req[p].user
                            /\ q.created_at = resp[p].sync_timestamp

C23_Witness ==
    \E p \in Procs :
        /\ Served(p, "create")
        /\ resp[p].status = "201"
        /\ req[p].items[1].id # None
        /\ prev.op = "delete"
        /\ prev.status = "204"
        /\ RemovedBefore(p, req[p].items[1].id[1])

(* After a sync deletion, get answers NotFound. *)
C23_GetAfterSyncDeletion ==
    \E p \in Procs :
        /\ Served(p, "get")
        /\ prev.op = "sync"
        /\ RemovedBefore(p, Target(p))
        /\ resp[p].status = "404"

(* C27: a PATCH changes, of the addressed item, only the fields present in *)
(* the body: the fields the body leaves out, id, user_id and created_at    *)
(* keep their values, and so does every other item.                        *)
C27_PatchFrame ==
    \A p \in Procs :
        Served(p, "update") =>
            IF resp[p].status = "200"
            THEN \E r \in pre[p] : \E q \in store :
                    /\ r.id = Target(p) /\ r.user_id = req[p].user
                    /\ q.id = r.id /\ q.user_id = r.user_id
                    /\ q.created_at = r.created_at
                    /\ \A f \in UpdateFields : Body(p)[f] = None => q[f] = r[f]
                    /\ store \ {q} = pre[p] \ {r}
            ELSE store = pre[p]

C27_Witness ==
    \E p \in Procs :
        /\ Served(p, "update")
        /\ resp[p].status = "200"
        /\ Body(p).name = Value("Skim")
        /\ \E r \in pre[p] : \E q \in store :
            /\ r.id = Target(p) /\ q.id = r.id
            /\ r.name = "Milk" /\ q.name = "Skim"
            /\ q.notes = Some("organic")
        /\ Cardinality(store) = 2

(* C28: a sync that updates an existing item leaves its is_consumed flag   *)
(* and its consumed_date as they were: an item marked consumed stays       *)
(* consumed when a client sync re-submits it.                              *)
C28_SyncKeepsConsumption ==
    \A p \in Procs :
        Succeeded(p) =>
            \A r \in pre[p] : \A q \in store :
                (q.id = r.id /\ q.user_id = r.user_id
                    /\ q.created_at = r.created_at) =>
                    /\ q.is_consumed = r.is_consumed
                    /\ q.consumed_date = r.consumed_date

C28_Witness ==
    \E p \in Procs :
        /\ Succeeded(p)
        /\ \E r \in pre[p] : \E q \in store :
            /\ r.user_id = req[p].user
            /\ Submits(req[p], r.id)
            /\ q.id = r.id /\ q.created_at = r.created_at
            /\ q.name # r.name
            /\ r.is_consumed /\ q.is_consumed
            /\ q.consumed_date = r.consumed_date

(* C29: an item has a consumed_date if and only if its is_consumed flag is *)
(* true, after any sequence of create, PATCH, mark_consumed and sync       *)
(* calls.                                                                  *)
C29_ConsumedDateIffConsumed ==
    \A r \in store : r.is_consumed <=> r.consumed_date # None

----------------------------------------------------------------------------
SearchOps == {"search", "by_ingredients"}

(* The upstream request failed: the transport raised or the status is an   *)
(* error status.                                                           *)
UpstreamFailed(p) ==
    /\ lk[p].calls = 1
    /\ lk[p].up[1].error \/ lk[p].up[1].status_code >= 400

EmptyResult(op) ==
    IF op = "search"
    THEN Returns(Dict([results |-> <<>>, totalResults |-> Number(0)]))
    ELSE Returns(List(<<>>))

(* The call in slot p follows a call of the same method with the same key  *)
(* that missed the cache, returned the empty result and cached nothing.    *)
FollowsUncached(p) ==
    /\ lk[p].op \in SearchOps
    /\ lk[p].pc \in {"write", "done"}
    /\ prev.op = lk[p].op
    /\ prev.arg = lk[p].arg
    /\ prev.exp = 0
    /\ prev.out = EmptyResult(prev.op)
    /\ lk[p].read # "error"

(* C30: a recipe search whose upstream call fails returns the empty result *)
(* and writes nothing to the cache, so the next identical search queries   *)
(* upstream again; only a successful upstream response is cached, for      *)
(* 3600 s.                                                                 *)
C30_FailedSearchNotCached ==
    \A p \in Procs :
        /\ (lk[p].op \in SearchOps /\ UpstreamFailed(p)) =>
                /\ lk[p].pc = "done"
                /\ lk[p].out = EmptyResult(lk[p].op)
                /\ lk[p].status = "200"
                /\ lk[p].wrote = "none"
                /\ lk[p].read = "miss" => lk[p].key \notin DOMAIN redis
        /\ FollowsUncached(p) =>
                /\ lk[p].read = "miss"
                /\ lk[p].calls = 1
        /\ (lk[p].op \in SearchOps /\ lk[p].wrote = "ok") =>
                /\ lk[p].calls = 1
                /\ ~UpstreamFailed(p)
                /\ lk[p].up[1].status_code = 200
                /\ redis[lk[p].key].exp = clock + 3600
                /\ loads(redis[lk[p].key].text) = lk[p].out

C30_Witness ==
    \E p \in Procs :
        /\ FollowsUncached(p)
        /\ lk[p].op = "search"
        /\ lk[p].pc = "done"
        /\ prev.status = "200"
        /\ UpstreamFailed(p)
        /\ lk[p].up[1].status_code = 500

----------------------------------------------------------------------------
(* Two search_recipes calls ask for the same thing: the same text, the     *)
(* same set of ingredients, the same diet, time, number and offset.        *)
IngredientSet(a) ==
    IF a.ingredients = None THEN {}
    ELSE {a.ingredients[1][k] : k \in 1..Len(a.ingredients[1])}

EquivalentSearch(a, b) ==
    /\ a.query = b.query
    /\ IngredientSet(a) = IngredientSet(b)
    /\ a.diet = b.diet
    /\ a.max_ready_time = b.max_ready_time
    /\ a.number = b.number
    /\ a.offset = b.offset

(* C26: two search_recipes calls that differ in query text, ingredient     *)
(* set, diet, max_ready_time, number or offset never compute the same      *)
(* cache key, also when the values contain ':' or ',', and a call is never *)
(* answered from the cache entry of a different query.                     *)
C26_SearchKeysInjective ==
    \A p \in Procs :
        lk[p].op = "search" =>
            /\ \A b \in SeparatorArgs :
                    SearchKey(b) = lk[p].key => EquivalentSearch(lk[p].arg, b)
            /\ (lk[p].read = "hit" /\ prev.op = "search" /\ prev.key = lk[p].key) =>
                    EquivalentSearch(prev.arg, lk[p].arg)

----------------------------------------------------------------------------
(* Concurrent lookups of a barcode *)

NoLookupRaises ==
    \A p \in Procs : lk[p].op = "barcode" => lk[p].out.raised = ""

(* What a caller receives is what it read from the cache or what its own   *)
(* upstream query gave, and every cache entry is the text of the outcome   *)
(* of an upstream query for the barcode of its key.                        *)
OutcomesOwn ==
    /\ \A p \in Procs :
        (lk[p].op = "barcode" /\ lk[p].pc = "done" /\ lk[p].out.raised = "") =>
            \/ lk[p].read = "hit" /\ lk[p].calls = 0
            \/ /\ lk[p].calls = 1
               /\ lk[p].out = query_open_food_facts(lk[p].up[1], strip(lk[p].arg))
    /\ \A k \in DOMAIN redis :
        \E b \in RaceBarcodes, response \in ProductResponses :
            LET outcome == query_open_food_facts(response, strip(b))
            IN  /\ k = BarcodeKey(strip(b))
                /\ outcome.raised = ""
                /\ redis[k].text = dumps(outcome.value)
                /\ redis[k].exp = clock + BarcodeTtl(outcome.value)

(* C24: under any interleaving of concurrent barcode lookups no lookup     *)
(* raises, each caller receives the value it read from the cache or the    *)
(* outcome of its own upstream query, and the cache entry of a key always  *)
(* holds the outcome of some upstream query for that key.                  *)
C24_RacingLookupsNeverRaise ==
    /\ NoLookupRaises
    /\ OutcomesOwn

(* The call in slot p started after the call kept in prev had returned;    *)
(* that call read or wrote a found product under the same key, the time to *)
(* live of the entry is not over and the cache read of p did not fail.     *)
StartedAfterFound(p) ==
    /\ lk[p].op = "barcode"
    /\ lk[p].pc = "done"
    /\ prev.op = "barcode"
    /\ prev.seq # 0
    /\ lk[p].since = prev.seq
    /\ prev.key = lk[p].key
    /\ prev.out.raised = ""
    /\ Truthy(prev.out.value)
    /\ clock < prev.exp
    /\ lk[p].read # "error"

(* C25: once a lookup has cached a found product for a barcode, every      *)
(* lookup of that barcode that starts afterwards and within the time to    *)
(* live returns that product, also when lookups of the barcode that        *)
(* started earlier are still in flight and their upstream query fails.     *)
C25_FoundProductStays ==
    \A p \in Procs : StartedAfterFound(p) => lk[p].out = prev.out

====
